---- MODULE Spec2Model ----
(***************************************************************************)
(* Project management system: the four-level hierarchy                     *)
(* Project -> Phase -> Process -> Task held by ProjectManagementSystem     *)
(* (core/manager.py), the progress roll-up of the entity models, the       *)
(* JSON data store and the notification manager.                           *)
(*                                                                         *)
(* Conventions.                                                            *)
(*  - progress values are kept in tenths of a percent (1000 = 100.0),      *)
(*    the resolution round(x, 1) gives them in the source;                 *)
(*  - ids are fresh uuids in the source; here the n-th entity of a kind    *)
(*    gets the id KindBase + n, and an id is never handed out twice;       *)
(*  - entities are Python objects mutated in place: what a method changes  *)
(*    on the object is visible in the manager map at once, whether or not  *)
(*    the manager later accepts or persists the update;                    *)
(*  - names are drawn non-blank and no modelled operation sets a date      *)
(*    (start_date / end_date keep the constructor's None);                 *)
(*  - a manager operation is an operator from the system before the call   *)
(*    to [w, ret, raised]: the system after it, what the caller gets back  *)
(*    ("Entity", "True", "False", "None") and the exception that reaches   *)
(*    the caller ("" when none does).                                      *)
(*                                                                         *)
(* The specifications share the operations: Spec (the whole system on a    *)
(* one-process hierarchy, with status and progress edits), SpecTree        *)
(* (creation and cascading deletion on a wider hierarchy), SpecNM (one     *)
(* NotificationManager under add / read / acknowledge / dismiss),          *)
(* SpecLoaded (a system constructed over a store that lost a record),      *)
(* SpecWriteFailure (a store whose writes fail), SpecLinks (SpecTree with  *)
(* status changes), SpecNotifications (creation, status changes and        *)
(* check_all_notifications), and one specification per class for what a    *)
(* single object computes: SpecTask, SpecProcess, SpecPhase, SpecProject   *)
(* and SpecGenerator (the only one with dates).                            *)
(*                                                                         *)
(* Beside the manager stand the NotificationService (`service`: its own    *)
(* notification manager, its handlers and its polling threads) and the     *)
(* global ErrorHandler (`error_handler`: the retry counters): SpecDelivery *)
(* (the system and the service called synchronously), SpecBackground (the  *)
(* polling worker interleaved with the main thread, one step per           *)
(* statement group that another thread can observe), SpecPollingFair       *)
(* (the worker alone under start and stop, every started thread            *)
(* eventually scheduled) and SpecRetry (wrapped calls that fail).          *)
(***************************************************************************)
EXTENDS Integers, Sequences, FiniteSets, TLC

\* ------------------------------------------------------------------ bounds
\* Spec: the whole system, with status and progress edits
MaxProjects == 1        \* projects ever created
MaxPhases == 1          \* phases ever created
MaxProcesses == 1       \* processes ever created
MaxTasks == 2           \* tasks ever created
MaxStored == 2          \* persisted notifications counted per (entity, type)
\* SpecTree: creation and cascading deletion only, on a wider hierarchy
TreeMaxProjects == 2
TreeMaxPhases == 2
TreeMaxProcesses == 2
TreeMaxTasks == 2
\* SpecNM: one NotificationManager on its own
MaxNotifications == 3   \* notifications it ever holds
\* SpecTask: one Task on its own
MaxHistory == 6         \* entries its status_history ever holds
\* SpecProcess: one Process and the tasks it lists
MaxListedTasks == 3     \* ids in its task list
\* SpecProject: one Project and the phases it lists
MaxListedPhases == 3    \* ids in its phase list
\* SpecPhase: one Phase and the processes it lists
MaxListedProcesses == 2 \* ids in its process list
\* SpecRetry: calls of functions wrapped by handle_errors
MaxCalls == 5           \* calls of one wrapped function
\* SpecBackground: the NotificationService with its polling thread
MaxWorkers == 2         \* worker threads ever started
\* SpecDelivery: the system next to a NotificationService
MaxHandlers == 2        \* handlers registered with the service

\* --------------------------------------------------------------- constants
None == 0                       \* Python None for an id
NoHours == -1                   \* Python None for estimated_hours

ProjectBase == 100
PhaseBase == 200
ProcessBase == 300
TaskBase == 400

\* TaskStatus / ProjectStatus / PhaseStatus / ProcessStatus values
NOT_STARTED == "NotStarted"
IN_PROGRESS == "InProgress"
COMPLETED == "Completed"
CANNOT_HANDLE == "CannotHandle"
SUSPENDED == "Suspended"
ON_HOLD == "OnHold"

TaskStatus == { NOT_STARTED, IN_PROGRESS, COMPLETED, CANNOT_HANDLE }
ProjectStatus == { NOT_STARTED, IN_PROGRESS, COMPLETED, SUSPENDED, ON_HOLD }

\* NotificationType values
DEADLINE_APPROACHING == "DeadlineApproaching"
DEADLINE_OVERDUE == "DeadlineOverdue"
PROGRESS_DELAY == "ProgressDelay"
PROGRESS_INSUFFICIENT == "ProgressInsufficient"

\* NotificationSettings defaults, in tenths of a percent
progress_delay_threshold == 500
deadline_warning_days == 7          \* NotificationSettings default, in days
insufficient_progress_days == 3     \* NotificationSettings default, in days
insufficient_progress_threshold == 300  \* NotificationSettings default, 30.0 %
NoDate == -1000                     \* Python None for an end_date (a day number)

\* NotificationPriority
HIGH == "High"
MEDIUM == "Medium"

\* inputs the callers draw from
StatusInputs == { NOT_STARTED, COMPLETED, CANNOT_HANDLE, "Bogus" }
ProjectStatusInputs == { COMPLETED, SUSPENDED }
AssigneeInputs == { "", "alice" }
ProgressInputs == { 0, 400, 1000 }
NMEntityInputs == { ProjectBase + 1, PhaseBase + 1 }
NMTypeInputs == { PROGRESS_DELAY, DEADLINE_OVERDUE }

\* ---------------------------------------------------------------- helpers
\* round(n / d, 1) on a value already scaled to tenths: nearest integer,
\* ties to even
Round1(n, d) ==
    LET q == n \div d
        r == n % d
    IN  IF 2 * r < d THEN q
        ELSE IF 2 * r > d THEN q + 1
        ELSE IF q % 2 = 0 THEN q ELSE q + 1

\* list.remove(x): drops the first occurrence
RECURSIVE Remove(_, _)
Remove(s, x) ==
    IF s = <<>> THEN <<>>
    ELSE IF Head(s) = x THEN Tail(s)
    ELSE <<Head(s)>> \o Remove(Tail(s), x)

Range(s) == { s[i] : i \in DOMAIN s }

\* d[k] = v on a dict / del d[k]
Put(d, k, v) == [x \in DOMAIN d \cup {k} |-> IF x = k THEN v ELSE d[x]]
Del(d, k) == [x \in DOMAIN d \ {k} |-> d[x]]
EmptyDict == [x \in {} |-> 0]

\* ------------------------------------------------------------ constructors
\* Project.__init__
NewProject == [status |-> NOT_STARTED, is_status_manual |-> FALSE,
               progress |-> 0, phases |-> <<>>]

\* Phase.__init__ + PhaseManager.create_phase
NewPhase(project_id) == [parent_project_id |-> project_id, progress |-> 0,
                         processes |-> <<>>]

\* Process.__init__ + ProcessManager.create_process
NewProcess(assignee, phase_id) ==
    [assignee |-> assignee, parent_phase_id |-> phase_id,
     estimated_hours |-> NoHours, progress |-> 0,
     is_progress_manual |-> TRUE, tasks |-> <<>>]

\* Task.__init__ + TaskManager.create_task
NewTask(process_id) == [status |-> NOT_STARTED, parent_process_id |-> process_id]

\* ------------------------------------------------------------------- Task
\* set_status without the TaskStatus.is_valid test: any string is stored
set_status_unchecked(task, new_status) ==
    IF new_status = task.status THEN [ok |-> TRUE, task |-> task]
    ELSE [ok |-> TRUE, task |-> [task EXCEPT !.status = new_status]]

\* Task._add_status_change: StatusChange(old_status, new_status) appended.
\* The tasks of Spec, SpecTree and SpecLoaded are kept without their
\* status_history, which grows with every change; a task that carries its
\* history (SpecTask) gets the entry.
_add_status_change(task, old_status, new_status) ==
    IF "status_history" \in DOMAIN task
    THEN [task EXCEPT !.status_history =
              Append(@, [old_status |-> old_status, new_status |-> new_status])]
    ELSE task

\* Task.__init__ with its status_history: the seed entry "" -> NotStarted
NewTaskWithHistory ==
    _add_status_change([status |-> NOT_STARTED, status_history |-> <<>>,
                        parent_process_id |-> None],
                       "", NOT_STARTED)

\* set_status that records a change on every accepted call, the status
\* changing or not
set_status_recording_every_call(task, new_status) ==
    IF new_status \notin TaskStatus THEN [ok |-> FALSE, task |-> task]
    ELSE [ok |-> TRUE,
          task |-> _add_status_change([task EXCEPT !.status = new_status],
                                      task.status, new_status)]

\* Task.set_status: [ok, task]
set_status(task, new_status) ==
    IF new_status \notin TaskStatus THEN [ok |-> FALSE, task |-> task]
    ELSE IF new_status = task.status THEN [ok |-> TRUE, task |-> task]
    ELSE [ok |-> TRUE,
          task |-> _add_status_change([task EXCEPT !.status = new_status],
                                      task.status, new_status)]

\* is_actionable that excludes nothing: CannotHandle tasks count as open work
is_actionable_always(task) == TRUE

is_completed(task) == task.status = COMPLETED
is_actionable(task) == task.status # CANNOT_HANDLE

\* ---------------------------------------------------------------- Process
RECURSIVE CountTasks(_, _, _)
\* over process.tasks: [actionable, completed] of the tasks that resolve
CountTasks(ids, tsks, acc) ==
    IF ids = <<>> THEN acc
    ELSE LET id == Head(ids)
             hit == id \in DOMAIN tsks /\ is_actionable(tsks[id])
             done == hit /\ is_completed(tsks[id])
         IN  CountTasks(Tail(ids), tsks,
                 [actionable |-> acc.actionable + (IF hit THEN 1 ELSE 0),
                  completed |-> acc.completed + (IF done THEN 1 ELSE 0)])

\* Process.calculate_progress_from_tasks
calculate_progress_from_tasks(process, tsks) ==
    IF process.tasks = <<>> THEN 0
    ELSE LET c == CountTasks(process.tasks, tsks, [actionable |-> 0, completed |-> 0])
         IN  IF c.actionable = 0 THEN 0
             ELSE Round1(c.completed * 1000, c.actionable)

\* Process.set_progress: [ok, process]
set_progress(process, progress, is_manual) ==
    IF 0 <= progress /\ progress <= 1000
    THEN [ok |-> TRUE, process |-> [process EXCEPT !.progress = progress,
                                                   !.is_progress_manual = is_manual]]
    ELSE [ok |-> FALSE, process |-> process]

\* Process.update_progress_from_tasks: the process afterwards
update_progress_from_tasks(process, tsks) ==
    IF ~process.is_progress_manual
    THEN set_progress(process, calculate_progress_from_tasks(process, tsks), FALSE).process
    ELSE process

\* Process.set_estimated_hours: [ok, process]
set_estimated_hours(process, hours) ==
    IF hours >= 0
    THEN [ok |-> TRUE, process |-> [process EXCEPT !.estimated_hours = hours]]
    ELSE [ok |-> FALSE, process |-> process]

\* Process.get_status / Phase.get_status
get_status(entity) ==
    IF entity.progress = 0 THEN NOT_STARTED
    ELSE IF entity.progress = 1000 THEN COMPLETED
    ELSE IN_PROGRESS

\* BaseEntity.validate + Process._validate_additional
validate_process(process) ==
    /\ process.assignee # ""
    /\ 0 <= process.progress /\ process.progress <= 1000
    /\ ~(process.estimated_hours # NoHours /\ process.estimated_hours < 0)

\* ------------------------------------------------------------------ Phase
RECURSIVE SumProcesses(_, _, _)
\* over phase.processes: [weight, weighted] of the processes that resolve
SumProcesses(ids, procs, acc) ==
    IF ids = <<>> THEN acc
    ELSE LET id == Head(ids)
         IN  IF id \in DOMAIN procs
             THEN LET h == procs[id].estimated_hours
                      \* `estimated_hours if estimated_hours else 1.0`:
                      \* None and 0 are both falsy
                      weight == IF h # NoHours /\ h # 0 THEN h ELSE 1
                  IN  SumProcesses(Tail(ids), procs,
                          [weight |-> acc.weight + weight,
                           weighted |-> acc.weighted + procs[id].progress * weight])
             ELSE SumProcesses(Tail(ids), procs, acc)

\* Phase.calculate_progress_from_processes
calculate_progress_from_processes(phase, procs) ==
    IF phase.processes = <<>> THEN 0
    ELSE LET s == SumProcesses(phase.processes, procs, [weight |-> 0, weighted |-> 0])
         IN  IF s.weight > 0 THEN Round1(s.weighted, s.weight)
             ELSE 0   \* no listed process resolves: process_count = 0

\* Phase.update_progress_from_processes: the phase afterwards
update_progress_from_processes(phase, procs) ==
    [phase EXCEPT !.progress = calculate_progress_from_processes(phase, procs)]

\* Phase.get_date_range(process_manager); pm = None is what Project passes.
\* "AttributeError": None.get_process on the first listed process
get_date_range(phase, pm) ==
    IF pm = None
    THEN IF phase.processes # <<>> THEN [raised |-> "AttributeError"]
         ELSE [raised |-> "", start_date |-> None, end_date |-> None]
    ELSE [raised |-> "", start_date |-> None, end_date |-> None]

\* ---------------------------------------------------------------- Project
\* the derived statuses of the listed phases that resolve
PhaseStatuses(project, phs) ==
    { get_status(phs[id]) : id \in Range(project.phases) \cap DOMAIN phs }

\* calculate_status_from_phases that reports Completed as soon as one phase
\* is Completed
calculate_status_from_phases_any_completed(project, phs) ==
    LET st == PhaseStatuses(project, phs)
    IN  IF st = {} THEN NOT_STARTED
        ELSE IF COMPLETED \in st THEN COMPLETED
        ELSE IF IN_PROGRESS \in st THEN IN_PROGRESS
        ELSE NOT_STARTED

\* Project.calculate_status_from_phases
calculate_status_from_phases(project, phs) ==
    LET st == PhaseStatuses(project, phs)
    IN  IF project.phases = <<>> THEN NOT_STARTED
        ELSE IF st = {} THEN NOT_STARTED
        ELSE IF st = {COMPLETED} THEN COMPLETED
        ELSE IF IN_PROGRESS \in st THEN IN_PROGRESS
        ELSE IF st = {NOT_STARTED} THEN NOT_STARTED
        ELSE IN_PROGRESS

\* Project.set_status: [ok, project]
project_set_status(project, new_status, is_manual) ==
    IF new_status \notin ProjectStatus THEN [ok |-> FALSE, project |-> project]
    ELSE [ok |-> TRUE, project |-> [project EXCEPT !.status = new_status,
                                                   !.is_status_manual = is_manual]]

\* Project.update_status_from_phases: the project afterwards
update_status_from_phases(project, phs) ==
    IF ~project.is_status_manual
    THEN LET calculated == calculate_status_from_phases(project, phs)
         IN  IF calculated # project.status
             THEN project_set_status(project, calculated, FALSE).project
             ELSE project
    ELSE project

RECURSIVE SumPhases(_, _, _)
\* over project.phases: [raised, weight, weighted] of the phases that resolve
SumPhases(ids, phs, acc) ==
    IF ids = <<>> THEN acc
    ELSE LET id == Head(ids)
         IN  IF id \in DOMAIN phs
             THEN LET date_range == get_date_range(phs[id], None)
                  IN  IF date_range.raised # ""
                      THEN [acc EXCEPT !.raised = date_range.raised]
                      ELSE \* end_date and start_date are None: duration = 1
                           SumPhases(Tail(ids), phs,
                               [acc EXCEPT !.weight = @ + 1,
                                           !.weighted = @ + phs[id].progress])
             ELSE SumPhases(Tail(ids), phs, acc)

\* Project.calculate_progress_from_phases: [raised, value]
calculate_progress_from_phases(project, phs) ==
    IF project.phases = <<>> THEN [raised |-> "", value |-> 0]
    ELSE LET s == SumPhases(project.phases, phs,
                            [raised |-> "", weight |-> 0, weighted |-> 0])
         IN  IF s.raised # "" THEN [raised |-> s.raised, value |-> 0]
             ELSE IF s.weight > 0
                  THEN [raised |-> "", value |-> Round1(s.weighted, s.weight)]
                  ELSE [raised |-> "", value |-> 0]

\* BaseEntity.validate + Project._validate_additional
validate_project(project) ==
    /\ project.status \in ProjectStatus
    /\ 0 <= project.progress /\ project.progress <= 1000

\* BaseEntity.validate + Phase._validate_additional
validate_phase(phase) == 0 <= phase.progress /\ phase.progress <= 1000

\* ----------------------------------------------------------- Notification
\* Notification.__init__ (entity_id, type; the timestamps as "is set")
NewNotification(entity_id, type) ==
    [entity_id |-> entity_id, type |-> type,
     read |-> FALSE, acknowledged |-> FALSE, dismissed |-> FALSE]

\* Notification.mark_as_read
mark_as_read(n) == [n EXCEPT !.read = TRUE]

\* Notification.acknowledge
acknowledge(n) ==
    IF ~n.acknowledged THEN mark_as_read([n EXCEPT !.acknowledged = TRUE]) ELSE n

\* Notification.dismiss
dismiss(n) ==
    IF ~n.dismissed THEN mark_as_read([n EXCEPT !.dismissed = TRUE]) ELSE n

\* Notification.is_active
is_active(n) == ~n.acknowledged /\ ~n.dismissed

\* NotificationGenerator._check_progress_delay: the notifications it yields
_check_progress_delay(entity_id, entity) ==
    IF entity.progress >= 1000 THEN <<>>
    ELSE IF entity.progress < progress_delay_threshold
         THEN << NewNotification(entity_id, PROGRESS_DELAY) >>
         ELSE <<>>

\* NotificationGenerator.check_project_notifications; the three deadline
\* rules return None for an entity whose end_date is None
check_project_notifications(entity_id, project) == _check_progress_delay(entity_id, project)

\* NotificationGenerator.check_phase_notifications
check_phase_notifications(entity_id, phase) == _check_progress_delay(entity_id, phase)

\* NotificationGenerator.check_process_notifications
check_process_notifications(entity_id, process) == _check_progress_delay(entity_id, process)

\* ---------------------------------- NotificationGenerator, entities dated
\* The entities of Spec never get an end_date (no modelled operation sets
\* one), which is why the three operators above stop at the progress-delay
\* rule. Below, the whole rule set for an entity [progress, end_date], a
\* project also carrying status; end_date and today are day numbers.
AllTypes == { DEADLINE_APPROACHING, DEADLINE_OVERDUE, PROGRESS_DELAY, PROGRESS_INSUFFICIENT }

\* NotificationSettings.__init__: the settings the generator consults
NotificationSettings ==
    [deadline_warning_days |-> deadline_warning_days,
     insufficient_progress_days |-> insufficient_progress_days,
     insufficient_progress_threshold |-> insufficient_progress_threshold,
     enabled_types |-> AllTypes]

\* Notification.__init__ with its priority, then add_metadata
NotificationWith(entity_id, type, priority, metadata) ==
    [entity_id |-> entity_id, type |-> type, priority |-> priority,
     metadata |-> metadata,
     read |-> FALSE, acknowledged |-> FALSE, dismissed |-> FALSE]

\* `hasattr(entity, 'status') and entity.status == Completed`, or
\* `hasattr(entity, 'progress') and entity.progress >= 100.0`
completed_guard(entity) ==
    \/ "status" \in DOMAIN entity /\ entity.status = COMPLETED
    \/ entity.progress >= 1000

\* _check_deadline_approaching without the completed guard
_check_deadline_approaching_unguarded(settings, today, entity_id, entity) ==
    IF entity.end_date = NoDate THEN <<>>
    ELSE LET days_until_deadline == entity.end_date - today
         IN  IF 0 <= days_until_deadline
                /\ days_until_deadline <= settings.deadline_warning_days
             THEN << NotificationWith(entity_id, DEADLINE_APPROACHING,
                         IF days_until_deadline <= 1 THEN HIGH ELSE MEDIUM,
                         [days_until_deadline |-> days_until_deadline]) >>
             ELSE <<>>

\* NotificationGenerator._check_deadline_approaching: the notifications it yields
_check_deadline_approaching(settings, today, entity_id, entity) ==
    IF entity.end_date = NoDate THEN <<>>
    ELSE IF completed_guard(entity) THEN <<>>
    ELSE LET days_until_deadline == entity.end_date - today
         IN  IF 0 <= days_until_deadline
                /\ days_until_deadline <= settings.deadline_warning_days
             THEN << NotificationWith(entity_id, DEADLINE_APPROACHING,
                         IF days_until_deadline = 0 THEN HIGH
                         ELSE IF days_until_deadline = 1 THEN HIGH
                         ELSE MEDIUM,
                         [days_until_deadline |-> days_until_deadline]) >>
             ELSE <<>>

\* _check_deadline_overdue that counts the deadline day itself as overdue
_check_deadline_overdue_from_today(settings, today, entity_id, entity) ==
    IF entity.end_date = NoDate THEN <<>>
    ELSE IF completed_guard(entity) THEN <<>>
    ELSE LET days_overdue == today - entity.end_date
         IN  IF days_overdue >= 0
             THEN << NotificationWith(entity_id, DEADLINE_OVERDUE, HIGH,
                                      [days_overdue |-> days_overdue]) >>
             ELSE <<>>

\* NotificationGenerator._check_deadline_overdue
_check_deadline_overdue(settings, today, entity_id, entity) ==
    IF entity.end_date = NoDate THEN <<>>
    ELSE IF completed_guard(entity) THEN <<>>
    ELSE LET days_overdue == today - entity.end_date
         IN  IF days_overdue > 0
             THEN << NotificationWith(entity_id, DEADLINE_OVERDUE, HIGH,
                                      [days_overdue |-> days_overdue]) >>
             ELSE <<>>

\* NotificationGenerator._check_progress_insufficient
_check_progress_insufficient(settings, today, entity_id, entity) ==
    IF entity.end_date = NoDate THEN <<>>
    ELSE IF entity.progress >= 1000 THEN <<>>
    ELSE LET days_until_deadline == entity.end_date - today
         IN  IF days_until_deadline <= settings.insufficient_progress_days
                /\ entity.progress < settings.insufficient_progress_threshold
             THEN << NotificationWith(entity_id, PROGRESS_INSUFFICIENT, HIGH,
                         [days_until_deadline |-> days_until_deadline]) >>
             ELSE <<>>

\* NotificationGenerator.check_project_notifications, check_phase_notifications
\* and check_process_notifications (one body, three entity kinds): the four
\* rules in order, each behind its enabled flag
check_entity_notifications(settings, today, entity_id, entity) ==
    LET when(type, found) == IF type \in settings.enabled_types THEN found ELSE <<>>
    IN  when(DEADLINE_APPROACHING,
             _check_deadline_approaching(settings, today, entity_id, entity))
        \o when(DEADLINE_OVERDUE,
                _check_deadline_overdue(settings, today, entity_id, entity))
        \o when(PROGRESS_DELAY, _check_progress_delay(entity_id, entity))
        \o when(PROGRESS_INSUFFICIENT,
                _check_progress_insufficient(settings, today, entity_id, entity))

\* NotificationManager.find_existing_notification: position of the first
\* notification (dict order = insertion order) with that entity and type, 0 if none
find_existing_notification(ns, entity_id, type) ==
    LET hits == { i \in DOMAIN ns : ns[i].entity_id = entity_id /\ ns[i].type = type }
    IN  IF hits = {} THEN 0
        ELSE CHOOSE i \in hits : \A j \in hits : i <= j

\* add_notification with the duplicate test on existence alone, not on
\* is_active: an acknowledged or dismissed notification still blocks
add_notification_any_existing(ns, n) ==
    LET existing == find_existing_notification(ns, n.entity_id, n.type)
    IN  IF existing # 0
        THEN [ok |-> FALSE, notifications |-> ns]
        ELSE [ok |-> TRUE, notifications |-> Append(ns, n)]

\* NotificationManager.add_notification: [ok, notifications]
add_notification(ns, n) ==
    LET existing == find_existing_notification(ns, n.entity_id, n.type)
    IN  IF existing # 0 /\ is_active(ns[existing])
        THEN [ok |-> FALSE, notifications |-> ns]
        ELSE [ok |-> TRUE, notifications |-> Append(ns, n)]

\* NotificationManager.mark_as_read, i the position of notification_id
\* (0: no such id): [ok, notifications]
manager_mark_as_read(ns, i) ==
    IF i \in DOMAIN ns
    THEN [ok |-> TRUE, notifications |-> [ns EXCEPT ![i] = mark_as_read(@)]]
    ELSE [ok |-> FALSE, notifications |-> ns]

\* NotificationManager.acknowledge: [ok, notifications]
manager_acknowledge(ns, i) ==
    IF i \in DOMAIN ns
    THEN [ok |-> TRUE, notifications |-> [ns EXCEPT ![i] = acknowledge(@)]]
    ELSE [ok |-> FALSE, notifications |-> ns]

\* NotificationManager.dismiss: [ok, notifications]
manager_dismiss(ns, i) ==
    IF i \in DOMAIN ns
    THEN [ok |-> TRUE, notifications |-> [ns EXCEPT ![i] = dismiss(@)]]
    ELSE [ok |-> FALSE, notifications |-> ns]

\* -------------------------------------------------------------- DataStore
\* the persisted collections; notifications are keyed by fresh uuids, kept
\* here as the number of records per (entity_id, type), counted up to
\* MaxStored (MaxStored stands for "MaxStored or more")
EmptyStore == [projects |-> EmptyDict, phases |-> EmptyDict,
               processes |-> EmptyDict, tasks |-> EmptyDict,
               notifications |-> EmptyDict]

\* DataStore.save_project
save_project(store, id, data) == [store EXCEPT !.projects = Put(@, id, data)]
\* DataStore.save_phase
save_phase(store, id, data) == [store EXCEPT !.phases = Put(@, id, data)]
\* DataStore.save_process
save_process(store, id, data) == [store EXCEPT !.processes = Put(@, id, data)]
\* DataStore.save_task
save_task(store, id, data) == [store EXCEPT !.tasks = Put(@, id, data)]
\* DataStore.delete_project
store_delete_project(store, id) == [store EXCEPT !.projects = Del(@, id)]
\* DataStore.delete_phase
store_delete_phase(store, id) == [store EXCEPT !.phases = Del(@, id)]
\* DataStore.delete_process
store_delete_process(store, id) == [store EXCEPT !.processes = Del(@, id)]
\* DataStore.delete_task
store_delete_task(store, id) == [store EXCEPT !.tasks = Del(@, id)]

\* DataStore.save_notification
save_notification(store, n) ==
    LET key == <<n.entity_id, n.type>>
        old == IF key \in DOMAIN store.notifications THEN store.notifications[key] ELSE 0
        new == IF old < MaxStored THEN old + 1 ELSE MaxStored
    IN  [store EXCEPT !.notifications = Put(@, key, new)]

\* ------------------------------------------------------ error_handler.py
\* exceptions as [type, category, severity, recovery_strategy]
BusinessLogicError ==
    [type |-> "BusinessLogicError", category |-> "BUSINESS",
     severity |-> "MEDIUM", recovery_strategy |-> "NONE"]

\* ErrorHandler._wrap_exception of a standard AttributeError
WrappedAttributeError ==
    [type |-> "ProjectManagementError", category |-> "SYSTEM",
     severity |-> "MEDIUM", recovery_strategy |-> "NONE"]

\* ErrorHandler._wrap_exception of a standard exception, by its class name;
\* a class outside error_mapping (DataStoreError) gets (SYSTEM, MEDIUM)
_wrap_exception(exception) ==
    LET category == CASE exception \in { "ValueError", "TypeError" } -> "VALIDATION"
                      [] exception = "FileNotFoundError" -> "FILE_IO"
                      [] exception = "PermissionError" -> "PERMISSION"
                      [] exception = "KeyError" -> "DATA"
                      [] OTHER -> "SYSTEM"
        severity == CASE exception \in { "ValueError", "TypeError" } -> "LOW"
                      [] exception \in { "PermissionError", "OSError", "ImportError" } -> "HIGH"
                      [] exception = "MemoryError" -> "CRITICAL"
                      [] OTHER -> "MEDIUM"
    IN  [type |-> "ProjectManagementError", category |-> category,
         severity |-> severity, recovery_strategy |-> "NONE"]

\* ErrorHandler._execute_recovery_strategy: what handle_error returns
\* ("RAISE": _abort_operation re-raises)
_execute_recovery_strategy(error) ==
    CASE error.recovery_strategy = "RETRY" -> "RETRY"
      [] error.recovery_strategy = "FALLBACK" -> "FALLBACK"
      [] error.recovery_strategy = "IGNORE" -> "IGNORED"
      [] error.recovery_strategy = "ABORT" -> "RAISE"
      [] OTHER -> "None"

\* handle_errors(recovery_strategy=NONE) as the manager applies it
\* (fallback_value None, log_errors True, reraise False), for an error of a
\* call that fails again when retried: the exception that reaches the
\* caller, "" when the wrapper returns fallback_value instead
handle_errors(error) ==
    IF _execute_recovery_strategy(error) = "RAISE" THEN error.type ELSE ""

\* DataError: the one class that declares the Retry strategy
DataError ==
    [type |-> "DataError", category |-> "DATA",
     severity |-> "MEDIUM", recovery_strategy |-> "RETRY"]

\* FileIOError
FileIOError ==
    [type |-> "FileIOError", category |-> "FILE_IO",
     severity |-> "HIGH", recovery_strategy |-> "FALLBACK"]

\* ProjectManagementError(category=FILE_IO, recovery_strategy=RETRY), a
\* Retry error of another category
RetryableFileError ==
    [type |-> "ProjectManagementError", category |-> "FILE_IO",
     severity |-> "MEDIUM", recovery_strategy |-> "RETRY"]

\* what an invocation that raises nothing is written as
Returns ==
    [type |-> "", category |-> "", severity |-> "", recovery_strategy |-> ""]

max_retry_attempts == 3

\* dict.get(k, 0)
Get(d, k) == IF k \in DOMAIN d THEN d[k] ELSE 0

\* _attempt_retry with no bound: every Retry error is answered "RETRY"
_attempt_retry_unbounded(eh, error, function) ==
    LET retry_key == <<error.category, function>>
    IN  [eh |-> [eh EXCEPT !.recovery_attempts =
                     Put(@, retry_key, Get(eh.recovery_attempts, retry_key) + 1)],
         result |-> "RETRY"]

\* ErrorHandler._attempt_retry, function from the context: [eh, result]
_attempt_retry(eh, error, function) ==
    LET retry_key == <<error.category, function>>
        attempts == Get(eh.recovery_attempts, retry_key)
    IN  IF attempts < max_retry_attempts
        THEN [eh |-> [eh EXCEPT !.recovery_attempts = Put(@, retry_key, attempts + 1)],
              result |-> "RETRY"]
        ELSE [eh |-> eh, result |-> "None"]

\* ErrorHandler.handle_error on an error raised by the wrapped function:
\* [eh, result]
handle_error(eh, error, function) ==
    IF error.recovery_strategy = "RETRY"
    THEN _attempt_retry(eh, error, function)
    ELSE [eh |-> eh, result |-> _execute_recovery_strategy(error)]

\* one invocation of the wrapped function, counted
Invoke(eh, function) == [eh EXCEPT !.invoked = Put(@, function, Get(@, function) + 1)]

\* the wrapper handle_errors puts around a function, with the manager's
\* arguments (fallback_value None, log_errors True, reraise False). first
\* and second are what the function does when invoked and when invoked
\* again: Returns, or the error it raises. [eh, ret, raised]
wrapper(eh, function, first, second) ==
    LET eh1 == Invoke([eh EXCEPT !.calls = Put(@, function, Get(@, function) + 1)],
                      function)
    IN  IF first = Returns THEN [eh |-> eh1, ret |-> "Value", raised |-> ""]
        ELSE LET h == handle_error(eh1, first, function)
             IN  CASE h.result = "RETRY" ->
                          [eh |-> Invoke(h.eh, function),
                           ret |-> IF second = Returns THEN "Value" ELSE "None",
                           raised |-> ""]
                   [] h.result = "RAISE" ->
                          [eh |-> h.eh, ret |-> "None", raised |-> first.type]
                   [] OTHER -> [eh |-> h.eh, ret |-> "None", raised |-> ""]

\* ErrorHandler.__init__: recovery_attempts per retry key; `invoked` counts
\* the calls of each wrapped function, `calls` those of its wrapper
NewErrorHandler ==
    [recovery_attempts |-> EmptyDict, invoked |-> EmptyDict, calls |-> EmptyDict]

\* ------------------------------------------------------------------ state
VARIABLES
    projects,       \* ProjectManager.projects: id -> Project
    phases,         \* PhaseManager.phases: id -> Phase
    processes,      \* ProcessManager.processes: id -> Process
    tasks,          \* TaskManager.tasks: id -> Task
    notifications,  \* NotificationManager.notifications, in insertion order
    store,          \* DataStore: the persisted collections
    created,        \* entities created so far, per kind (the uuid source)
    service,        \* NotificationService, its worker threads and its caller
    error_handler   \* the global ErrorHandler and the calls it has served

vars == <<projects, phases, processes, tasks, notifications, store, created,
          service, error_handler>>

\* the system as one value, for the operations below
World == [projects |-> projects, phases |-> phases, processes |-> processes,
          tasks |-> tasks, notifications |-> notifications, store |-> store]

\* ---------------------------------------------- ProjectManagementSystem
RECURSIVE AddAndSave(_, _)
\* `for notification in notifications: add_notification; save_notification`
AddAndSave(w, generated) ==
    IF generated = <<>> THEN w
    ELSE LET n == Head(generated)
         IN  AddAndSave([w EXCEPT !.notifications = add_notification(@, n).notifications,
                                  !.store = save_notification(@, n)],
                        Tail(generated))

\* ProjectManagementSystem._check_and_generate_notifications_for_project
_check_and_generate_notifications_for_project(w, id) ==
    AddAndSave(w, check_project_notifications(id, w.projects[id]))

\* ProjectManagementSystem._check_and_generate_notifications_for_phase
_check_and_generate_notifications_for_phase(w, id) ==
    AddAndSave(w, check_phase_notifications(id, w.phases[id]))

\* ProjectManagementSystem._check_and_generate_notifications_for_process
_check_and_generate_notifications_for_process(w, id) ==
    AddAndSave(w, check_process_notifications(id, w.processes[id]))

\* the recomputation at the head of update_project: [raised, project]
RecomputeProject(project, phs) ==
    IF ~project.is_status_manual
    THEN LET p1 == update_status_from_phases(project, phs)
             calc == calculate_progress_from_phases(p1, phs)
         IN  IF calc.raised # "" THEN [raised |-> calc.raised, project |-> p1]
             ELSE [raised |-> "", project |-> [p1 EXCEPT !.progress = calc.value]]
    ELSE [raised |-> "", project |-> project]

\* ProjectManagementSystem.update_project, id a managed project: [w, ret, raised]
update_project(w, id) ==
    IF ~validate_project(w.projects[id])
    THEN [w |-> w, ret |-> "None", raised |-> handle_errors(BusinessLogicError)]
    ELSE LET r == RecomputeProject(w.projects[id], w.phases)
             w1 == [w EXCEPT !.projects[id] = r.project]
         IN  IF r.raised # ""
             THEN [w |-> w1, ret |-> "None", raised |-> handle_errors(WrappedAttributeError)]
             ELSE \* ProjectManager.update_project: validate() and id in projects
                  IF validate_project(r.project)
                  THEN LET w2 == [w1 EXCEPT !.store = save_project(@, id, r.project)]
                       IN  [w |-> _check_and_generate_notifications_for_project(w2, id),
                            ret |-> "True", raised |-> ""]
                  ELSE [w |-> w1, ret |-> "False", raised |-> ""]

\* ProjectManagementSystem.update_phase, id a managed phase: [w, ret, raised]
update_phase(w, id) ==
    LET phase == update_progress_from_processes(w.phases[id], w.processes)
        w1 == [w EXCEPT !.phases[id] = phase]
    IN  \* PhaseManager.update_phase: validate() and id in phases
        IF validate_phase(phase)
        THEN LET w2 == [w1 EXCEPT !.store = save_phase(@, id, phase)]
                 w3 == IF phase.parent_project_id # None
                          /\ phase.parent_project_id \in DOMAIN w2.projects
                       THEN update_project(w2, phase.parent_project_id).w
                       ELSE w2
             IN  [w |-> _check_and_generate_notifications_for_phase(w3, id),
                  ret |-> "True", raised |-> ""]
        ELSE [w |-> w1, ret |-> "False", raised |-> ""]

\* update_process that gives up when the owning phase does not resolve:
\* nothing is recomputed or saved
update_process_requiring_phase(w, id) ==
    IF w.processes[id].parent_phase_id \notin DOMAIN w.phases
    THEN [w |-> w, ret |-> "None", raised |-> ""]
    ELSE LET process == IF ~w.processes[id].is_progress_manual
                        THEN update_progress_from_tasks(w.processes[id], w.tasks)
                        ELSE w.processes[id]
             w2 == [w EXCEPT !.processes[id] = process,
                             !.store = save_process(@, id, process)]
             w3 == update_phase(w2, process.parent_phase_id).w
         IN  [w |-> _check_and_generate_notifications_for_process(w3, id),
              ret |-> "True", raised |-> ""]

\* ProjectManagementSystem.update_process, id a managed process: [w, ret, raised]
update_process(w, id) ==
    LET process == IF ~w.processes[id].is_progress_manual
                   THEN update_progress_from_tasks(w.processes[id], w.tasks)
                   ELSE w.processes[id]
        w1 == [w EXCEPT !.processes[id] = process]
    IN  \* ProcessManager.update_process: validate() and id in processes
        IF validate_process(process)
        THEN LET w2 == [w1 EXCEPT !.store = save_process(@, id, process)]
                 w3 == IF process.parent_phase_id # None
                          /\ process.parent_phase_id \in DOMAIN w2.phases
                       THEN update_phase(w2, process.parent_phase_id).w
                       ELSE w2
             IN  [w |-> _check_and_generate_notifications_for_process(w3, id),
                  ret |-> "True", raised |-> ""]
        ELSE [w |-> w1, ret |-> "False", raised |-> ""]

\* update_task_status without the roll-up: the status is stored and nothing
\* above the task is recomputed
_cascade_update_progress_skipped(w, task) == w

\* ProjectManagementSystem._cascade_update_progress: the world afterwards
_cascade_update_progress(w, task) ==
    IF task.parent_process_id # None /\ task.parent_process_id \in DOMAIN w.processes
    THEN update_process(w, task.parent_process_id).w
    ELSE w

\* ProjectManagementSystem.update_task_status: [w, ret, raised]
update_task_status(w, task_id, new_status) ==
    IF task_id \notin DOMAIN w.tasks THEN [w |-> w, ret |-> "False", raised |-> ""]
    ELSE LET r == set_status(w.tasks[task_id], new_status)
         IN  IF r.ok
             THEN LET w1 == [w EXCEPT !.tasks[task_id] = r.task,
                                      !.store = save_task(@, task_id, r.task)]
                  IN  [w |-> _cascade_update_progress(w1, r.task),
                       ret |-> "True", raised |-> ""]
             ELSE [w |-> w, ret |-> "False", raised |-> ""]

\* ProjectManagementSystem.update_task_status when data_store.save_task
\* raises the given exception: the task keeps its new status in memory,
\* nothing is written, the cascade is not reached
update_task_status_write_failing(w, task_id, new_status, exception) ==
    IF task_id \notin DOMAIN w.tasks THEN [w |-> w, ret |-> "False", raised |-> ""]
    ELSE LET r == set_status(w.tasks[task_id], new_status)
         IN  IF r.ok
             THEN [w |-> [w EXCEPT !.tasks[task_id] = r.task],
                   ret |-> "None", raised |-> handle_errors(_wrap_exception(exception))]
             ELSE [w |-> w, ret |-> "False", raised |-> ""]

\* ProjectManagementSystem.update_process when data_store.save_process
\* raises the given exception
update_process_write_failing(w, id, exception) ==
    LET process == IF ~w.processes[id].is_progress_manual
                   THEN update_progress_from_tasks(w.processes[id], w.tasks)
                   ELSE w.processes[id]
        w1 == [w EXCEPT !.processes[id] = process]
    IN  IF validate_process(process)
        THEN [w |-> w1, ret |-> "None",
              raised |-> handle_errors(_wrap_exception(exception))]
        ELSE [w |-> w1, ret |-> "False", raised |-> ""]

\* delete_task that forgets the owner: the task goes, its id stays in the
\* process's task list
delete_task_leaving_entry(w, task_id) ==
    IF task_id \notin DOMAIN w.tasks THEN [w |-> w, ret |-> "False"]
    ELSE [w |-> [w EXCEPT !.tasks = Del(@, task_id),
                          !.store = store_delete_task(@, task_id)],
          ret |-> "True"]

\* ProjectManagementSystem.delete_task: [w, ret]
delete_task(w, task_id) ==
    IF task_id \notin DOMAIN w.tasks THEN [w |-> w, ret |-> "False"]
    ELSE LET pid == w.tasks[task_id].parent_process_id
             w1 == IF pid # None /\ pid \in DOMAIN w.processes
                   THEN LET process == [w.processes[pid] EXCEPT !.tasks = Remove(@, task_id)]
                        IN  [w EXCEPT !.processes[pid] = process,
                                      !.store = save_process(@, pid, process)]
                   ELSE w
         IN  [w |-> [w1 EXCEPT !.tasks = Del(@, task_id),
                               !.store = store_delete_task(@, task_id)],
              ret |-> "True"]

RECURSIVE DeleteTasksWithoutCopy(_, _)
\* `for task_id in process.tasks:` on the list itself, which delete_task
\* shrinks under the loop: every other task is skipped
DeleteTasksWithoutCopy(w, ids) ==
    IF ids = <<>> THEN w
    ELSE LET w1 == delete_task(w, Head(ids)).w
         IN  IF Len(ids) >= 2 THEN DeleteTasksWithoutCopy(w1, Tail(Tail(ids))) ELSE w1

RECURSIVE DeleteTasks(_, _)
\* `for task_id in process.tasks[:]: self.delete_task(task_id)`
DeleteTasks(w, ids) ==
    IF ids = <<>> THEN w ELSE DeleteTasks(delete_task(w, Head(ids)).w, Tail(ids))

\* ProjectManagementSystem.delete_process: [w, ret]
delete_process(w, process_id) ==
    IF process_id \notin DOMAIN w.processes THEN [w |-> w, ret |-> "False"]
    ELSE LET w1 == DeleteTasks(w, w.processes[process_id].tasks)
             fid == w1.processes[process_id].parent_phase_id
             w2 == IF fid # None /\ fid \in DOMAIN w1.phases
                   THEN LET phase == [w1.phases[fid] EXCEPT !.processes = Remove(@, process_id)]
                        IN  [w1 EXCEPT !.phases[fid] = phase,
                                       !.store = save_phase(@, fid, phase)]
                   ELSE w1
         IN  [w |-> [w2 EXCEPT !.processes = Del(@, process_id),
                               !.store = store_delete_process(@, process_id)],
              ret |-> "True"]

RECURSIVE DeleteProcesses(_, _)
\* `for process_id in phase.processes[:]: self.delete_process(process_id)`
DeleteProcesses(w, ids) ==
    IF ids = <<>> THEN w ELSE DeleteProcesses(delete_process(w, Head(ids)).w, Tail(ids))

\* ProjectManagementSystem.delete_phase: [w, ret]
delete_phase(w, phase_id) ==
    IF phase_id \notin DOMAIN w.phases THEN [w |-> w, ret |-> "False"]
    ELSE LET w1 == DeleteProcesses(w, w.phases[phase_id].processes)
             pid == w1.phases[phase_id].parent_project_id
             w2 == IF pid # None /\ pid \in DOMAIN w1.projects
                   THEN LET project == [w1.projects[pid] EXCEPT !.phases = Remove(@, phase_id)]
                        IN  [w1 EXCEPT !.projects[pid] = project,
                                       !.store = save_project(@, pid, project)]
                   ELSE w1
         IN  [w |-> [w2 EXCEPT !.phases = Del(@, phase_id),
                               !.store = store_delete_phase(@, phase_id)],
              ret |-> "True"]

RECURSIVE DeletePhases(_, _)
\* `for phase_id in project.phases[:]: self.delete_phase(phase_id)`
DeletePhases(w, ids) ==
    IF ids = <<>> THEN w ELSE DeletePhases(delete_phase(w, Head(ids)).w, Tail(ids))

\* ProjectManagementSystem.delete_project: [w, ret]
delete_project(w, project_id) ==
    IF project_id \notin DOMAIN w.projects THEN [w |-> w, ret |-> "False"]
    ELSE LET w1 == DeletePhases(w, w.projects[project_id].phases)
         IN  [w |-> [w1 EXCEPT !.projects = Del(@, project_id),
                               !.store = store_delete_project(@, project_id)],
              ret |-> "True"]

\* ProjectManagementSystem.create_project, id the new uuid: [w, ret, raised]
create_project(w, id) ==
    [w |-> [w EXCEPT !.projects = Put(@, id, NewProject),
                     !.store = save_project(@, id, NewProject)],
     ret |-> "Entity", raised |-> ""]

\* Project.add_phase / Phase.add_process / Process.add_task
add_child(children, id) ==
    IF id \notin Range(children) THEN Append(children, id) ELSE children

\* ProjectManagementSystem.create_phase, id the new uuid: [w, ret, raised]
create_phase(w, id, project_id) ==
    IF project_id \notin DOMAIN w.projects
    THEN [w |-> w, ret |-> "None", raised |-> handle_errors(BusinessLogicError)]
    ELSE LET phase == NewPhase(project_id)
             project == [w.projects[project_id] EXCEPT !.phases = add_child(@, id)]
         IN  [w |-> [w EXCEPT !.phases = Put(@, id, phase),
                              !.projects[project_id] = project,
                              !.store = save_project(save_phase(@, id, phase),
                                                     project_id, project)],
              ret |-> "Entity", raised |-> ""]

\* ProjectManagementSystem.create_process, id the new uuid: [w, ret, raised]
create_process(w, id, assignee, phase_id) ==
    IF phase_id \notin DOMAIN w.phases
    THEN [w |-> w, ret |-> "None", raised |-> handle_errors(BusinessLogicError)]
    ELSE LET process == NewProcess(assignee, phase_id)
             phase == [w.phases[phase_id] EXCEPT !.processes = add_child(@, id)]
         IN  [w |-> [w EXCEPT !.processes = Put(@, id, process),
                              !.phases[phase_id] = phase,
                              !.store = save_phase(save_process(@, id, process),
                                                   phase_id, phase)],
              ret |-> "Entity", raised |-> ""]

\* ProjectManagementSystem.create_task, id the new uuid: [w, ret, raised]
create_task(w, id, process_id) ==
    IF process_id \notin DOMAIN w.processes
    THEN [w |-> w, ret |-> "None", raised |-> handle_errors(BusinessLogicError)]
    ELSE LET task == NewTask(process_id)
             process == [w.processes[process_id] EXCEPT !.tasks = add_child(@, id)]
         IN  [w |-> [w EXCEPT !.tasks = Put(@, id, task),
                              !.processes[process_id] = process,
                              !.store = save_process(save_task(@, id, task),
                                                     process_id, process)],
              ret |-> "Entity", raised |-> ""]

\* ---------------------------------------------------- NotificationService
\* NotificationService.__init__: its own NotificationManager (not the one
\* of ProjectManagementSystem), no handler, no worker; `delivered` is what
\* the handlers have been called with, one <<handler, entity_id, type>> per
\* call; `threads` are the workers ever started, `caller` the main thread
NewService ==
    [notifications |-> <<>>, notification_handlers |-> <<>>, delivered |-> <<>>,
     is_running |-> FALSE, stop_event |-> FALSE, check_thread |-> None,
     threads |-> <<>>,
     caller |-> [pc |-> "idle", pending |-> <<>>, manual |-> FALSE]]

\* a thread started on _background_check_loop, about to evaluate its
\* `while`; pending are the notifications its current check has generated
\* and not yet offered to add_notification
NewWorker == [pc |-> "while_running", pending |-> <<>>]

\* NotificationService.start_background_service: [service, ret]
start_background_service(svc) ==
    IF svc.is_running THEN [service |-> svc, ret |-> FALSE]
    ELSE [service |-> [svc EXCEPT !.is_running = TRUE,
                                  !.stop_event = FALSE,
                                  !.threads = Append(@, NewWorker),
                                  !.check_thread = Len(svc.threads) + 1],
          ret |-> TRUE]

\* Event.set that sets the flag and wakes nobody: a thread blocked in wait
\* sleeps on until its timeout
event_set_flag_only(svc) == [svc EXCEPT !.stop_event = TRUE]

\* Event.set: the flag is set and every thread blocked in wait is woken
event_set(svc) ==
    [svc EXCEPT !.stop_event = TRUE,
                !.threads = [t \in DOMAIN @ |->
                                IF @[t].pc = "waiting"
                                THEN [@[t] EXCEPT !.pc = "woken"] ELSE @[t]]]

\* NotificationService.stop_background_service up to its join: the caller
\* is left joining check_thread if that thread is alive. [service, ret]
stop_background_service(svc) ==
    IF ~svc.is_running THEN [service |-> svc, ret |-> FALSE]
    ELSE LET s1 == event_set([svc EXCEPT !.is_running = FALSE])
             alive == /\ s1.check_thread # None
                      /\ s1.threads[s1.check_thread].pc # "exited"
         IN  [service |-> [s1 EXCEPT !.caller.pc = IF alive THEN "joining" ELSE "idle"],
              ret |-> TRUE]

\* the first half of NotificationManager.add_notification: an existing
\* notification for n's (entity_id, type) was found and is active
active_existing(ns, n) ==
    LET existing == find_existing_notification(ns, n.entity_id, n.type)
    IN  existing # 0 /\ is_active(ns[existing])

\* the second half: `self.notifications[notification.id] = notification`
insert_notification(ns, n) == Append(ns, n)

\* NotificationService.add_notification_handler
add_notification_handler(svc, handler) ==
    [svc EXCEPT !.notification_handlers = Append(@, handler)]

RECURSIVE DeliverTo(_, _, _)
\* `for handler in self.notification_handlers: handler(notification)`
DeliverTo(delivered, handlers, n) ==
    IF handlers = <<>> THEN delivered
    ELSE DeliverTo(Append(delivered, <<Head(handlers), n.entity_id, n.type>>),
                   Tail(handlers), n)

\* NotificationService._deliver_notification
_deliver_notification(svc, n) ==
    [svc EXCEPT !.delivered = DeliverTo(@, svc.notification_handlers, n)]

RECURSIVE InOrder(_)
\* dict.values() of a manager map: insertion order, which is id order
InOrder(ids) ==
    IF ids = {} THEN <<>>
    ELSE LET first == CHOOSE i \in ids : \A j \in ids : i <= j
         IN  <<first>> \o InOrder(ids \ {first})

RECURSIVE ServiceAddSaveDeliver(_, _)
\* `for notification in notifications:
\*      if self.notification_manager.add_notification(notification):
\*          save_notification; _deliver_notification; generated_count += 1`
\* on s = [service, w, ret]
ServiceAddSaveDeliver(s, generated) ==
    IF generated = <<>> THEN s
    ELSE LET n == Head(generated)
             r == add_notification(s.service.notifications, n)
             s1 == IF r.ok
                   THEN [service |-> _deliver_notification(
                                         [s.service EXCEPT !.notifications = r.notifications], n),
                         w |-> [s.w EXCEPT !.store = save_notification(@, n)],
                         ret |-> s.ret + 1]
                   ELSE s
         IN  ServiceAddSaveDeliver(s1, Tail(generated))

RECURSIVE ServiceCheckEach(_, _, _)
\* one of the three `for entity in ...get_all_...()` loops of
\* check_and_generate_notifications, kind the map it walks
ServiceCheckEach(s, kind, ids) ==
    IF ids = <<>> THEN s
    ELSE LET id == Head(ids)
             generated ==
                 CASE kind = "project" -> check_project_notifications(id, s.w.projects[id])
                   [] kind = "phase" -> check_phase_notifications(id, s.w.phases[id])
                   [] OTHER -> check_process_notifications(id, s.w.processes[id])
         IN  ServiceCheckEach(ServiceAddSaveDeliver(s, generated), kind, Tail(ids))

\* NotificationService.check_and_generate_notifications run to completion on
\* one thread, pms set: [service, w, ret]
check_and_generate_notifications(svc, w) ==
    LET s0 == [service |-> svc, w |-> w, ret |-> 0]
        s1 == ServiceCheckEach(s0, "project", InOrder(DOMAIN w.projects))
        s2 == ServiceCheckEach(s1, "phase", InOrder(DOMAIN w.phases))
    IN  ServiceCheckEach(s2, "process", InOrder(DOMAIN w.processes))

RECURSIVE CheckAndGenerateEach(_, _, _)
\* one of the three `for entity in ...get_all_...()` loops of
\* check_all_notifications, kind the manager it walks
CheckAndGenerateEach(w, kind, ids) ==
    IF ids = <<>> THEN w
    ELSE LET id == Head(ids)
             w1 == CASE kind = "project" -> _check_and_generate_notifications_for_project(w, id)
                     [] kind = "phase" -> _check_and_generate_notifications_for_phase(w, id)
                     [] OTHER -> _check_and_generate_notifications_for_process(w, id)
         IN  CheckAndGenerateEach(w1, kind, Tail(ids))

\* ProjectManagementSystem.check_all_notifications: [w, ret], ret the number
\* of entities checked
check_all_notifications(w) ==
    LET w1 == CheckAndGenerateEach(w, "project", InOrder(DOMAIN w.projects))
        w2 == CheckAndGenerateEach(w1, "phase", InOrder(DOMAIN w.phases))
        w3 == CheckAndGenerateEach(w2, "process", InOrder(DOMAIN w.processes))
    IN  [w |-> w3,
         ret |-> Cardinality(DOMAIN w.projects) + Cardinality(DOMAIN w.phases)
                 + Cardinality(DOMAIN w.processes)]

\* ---------------------------------------------------------------- actions
\* the manager's state becomes w; the service and the error handler are
\* not its concern
Apply(w) ==
    /\ projects' = w.projects
    /\ phases' = w.phases
    /\ processes' = w.processes
    /\ tasks' = w.tasks
    /\ notifications' = w.notifications
    /\ store' = w.store
    /\ UNCHANGED <<service, error_handler>>

\* the ids a caller can hold: every id handed out so far, deleted or not,
\* and one that was never handed out
ProjectIds == { ProjectBase + n : n \in 1..(created.project + 1) }
PhaseIds == { PhaseBase + n : n \in 1..(created.phase + 1) }
ProcessIds == { ProcessBase + n : n \in 1..(created.process + 1) }
TaskIds == { TaskBase + n : n \in 1..(created.task + 1) }

Init ==
    /\ projects = EmptyDict
    /\ phases = EmptyDict
    /\ processes = EmptyDict
    /\ tasks = EmptyDict
    /\ notifications = <<>>
    /\ store = EmptyStore
    /\ created = [project |-> 0, phase |-> 0, process |-> 0, task |-> 0]
    /\ service = NewService
    /\ error_handler = NewErrorHandler

\* a create call whose result is r: a success takes the next id
Created(kind, max, r) ==
    /\ r.ret = "Entity" => created[kind] < max
    /\ created' = IF r.ret = "Entity" THEN [created EXCEPT ![kind] = @ + 1] ELSE created
    /\ Apply(r.w)

CreateProject ==
    Created("project", MaxProjects,
            create_project(World, ProjectBase + created.project + 1))

CreatePhaseUpTo(max) ==
    \E project_id \in ProjectIds :
        Created("phase", max,
                create_phase(World, PhaseBase + created.phase + 1, project_id))

CreateProcessUpTo(max, assignees) ==
    \E phase_id \in PhaseIds, assignee \in assignees :
        Created("process", max,
                create_process(World, ProcessBase + created.process + 1, assignee, phase_id))

CreateTaskUpTo(max) ==
    \E process_id \in ProcessIds :
        Created("task", max,
                create_task(World, TaskBase + created.task + 1, process_id))

CreatePhase == CreatePhaseUpTo(MaxPhases)
CreateProcess == CreateProcessUpTo(MaxProcesses, AssigneeInputs)
CreateTask == CreateTaskUpTo(MaxTasks)

UpdateTaskStatus ==
    \E task_id \in TaskIds, new_status \in StatusInputs :
        /\ Apply(update_task_status(World, task_id, new_status).w)
        /\ UNCHANGED created

\* ProcessDialog._save_process on an existing process: progress and mode
SetProgress ==
    \E id \in DOMAIN processes, progress \in ProgressInputs, is_manual \in BOOLEAN :
        LET w == [World EXCEPT !.processes[id] = set_progress(@, progress, is_manual).process]
        IN  /\ Apply(update_process(w, id).w)
            /\ UNCHANGED created

\* PhaseDialog._save_phase on an existing phase
UpdatePhase ==
    \E id \in DOMAIN phases :
        /\ Apply(update_phase(World, id).w)
        /\ UNCHANGED created

\* ProjectDialog._save_project on an existing project: status and mode
SetProjectStatus ==
    \E id \in DOMAIN projects, status \in ProjectStatusInputs, is_manual \in BOOLEAN :
        LET w == [World EXCEPT !.projects[id] = project_set_status(@, status, is_manual).project]
        IN  /\ Apply(update_project(w, id).w)
            /\ UNCHANGED created

DeleteTask ==
    \E id \in TaskIds :
        /\ Apply(delete_task(World, id).w)
        /\ UNCHANGED created

DeleteProcess ==
    \E id \in ProcessIds :
        /\ Apply(delete_process(World, id).w)
        /\ UNCHANGED created

DeletePhase ==
    \E id \in PhaseIds :
        /\ Apply(delete_phase(World, id).w)
        /\ UNCHANGED created

DeleteProject ==
    \E id \in ProjectIds :
        /\ Apply(delete_project(World, id).w)
        /\ UNCHANGED created

Next ==
    \/ CreateProject
    \/ CreatePhase
    \/ CreateProcess
    \/ CreateTask
    \/ UpdateTaskStatus
    \/ SetProgress
    \/ UpdatePhase
    \/ SetProjectStatus
    \/ DeleteTask
    \/ DeleteProcess
    \/ DeletePhase
    \/ DeleteProject

Spec == Init /\ [][Next]_vars

\* ------------------------------------------- creation and deletion only
TreeCreateProject ==
    Created("project", TreeMaxProjects,
            create_project(World, ProjectBase + created.project + 1))

TreeCreatePhase == CreatePhaseUpTo(TreeMaxPhases)
TreeCreateProcess == CreateProcessUpTo(TreeMaxProcesses, {"alice"})
TreeCreateTask == CreateTaskUpTo(TreeMaxTasks)

NextTree ==
    \/ TreeCreateProject
    \/ TreeCreatePhase
    \/ TreeCreateProcess
    \/ TreeCreateTask
    \/ DeleteTask
    \/ DeleteProcess
    \/ DeletePhase
    \/ DeleteProject

SpecTree == Init /\ [][NextTree]_vars

\* ------------------- creation, deletion and status changes, wider tree
NextLinks ==
    \/ NextTree
    \/ UpdateTaskStatus

SpecLinks == Init /\ [][NextLinks]_vars

\* ------------------------------------------ one NotificationManager alone
Unmanaged == <<projects, phases, processes, tasks, store, created, service, error_handler>>

AddNotification ==
    \E entity_id \in NMEntityInputs, type \in NMTypeInputs :
        LET r == add_notification(notifications, NewNotification(entity_id, type))
        IN  /\ r.ok => Len(notifications) < MaxNotifications
            /\ notifications' = r.notifications
            /\ UNCHANGED Unmanaged

MarkAsRead ==
    \E i \in 0..Len(notifications) :
        /\ notifications' = manager_mark_as_read(notifications, i).notifications
        /\ UNCHANGED Unmanaged

Acknowledge ==
    \E i \in 0..Len(notifications) :
        /\ notifications' = manager_acknowledge(notifications, i).notifications
        /\ UNCHANGED Unmanaged

Dismiss ==
    \E i \in 0..Len(notifications) :
        /\ notifications' = manager_dismiss(notifications, i).notifications
        /\ UNCHANGED Unmanaged

NextNM ==
    \/ AddNotification
    \/ MarkAsRead
    \/ Acknowledge
    \/ Dismiss

SpecNM == Init /\ [][NextNM]_vars

\* ------------------------------- a system constructed over a saved store
\* the kinds of record the saved store no longer holds
LostInputs == { "process", "phase", "project" }

\* the system after create_project, create_phase, create_process and two
\* create_task calls on an empty store
SavedHierarchy ==
    LET w0 == [projects |-> EmptyDict, phases |-> EmptyDict, processes |-> EmptyDict,
               tasks |-> EmptyDict, notifications |-> <<>>, store |-> EmptyStore]
        w1 == create_project(w0, ProjectBase + 1).w
        w2 == create_phase(w1, PhaseBase + 1, ProjectBase + 1).w
        w3 == create_process(w2, ProcessBase + 1, "alice", PhaseBase + 1).w
        w4 == create_task(w3, TaskBase + 1, ProcessBase + 1).w
    IN  create_task(w4, TaskBase + 2, ProcessBase + 1).w

\* the store of SavedHierarchy without its record of the given kind
LoseRecord(st, kind) ==
    CASE kind = "process" -> store_delete_process(st, ProcessBase + 1)
      [] kind = "phase" -> store_delete_phase(st, PhaseBase + 1)
      [] kind = "project" -> store_delete_project(st, ProjectBase + 1)

\* ProjectManagementSystem._load_all_data over a store without notifications:
\* every stored record becomes a managed entity, its parent id unchecked
_load_all_data(st) ==
    [projects |-> st.projects, phases |-> st.phases, processes |-> st.processes,
     tasks |-> st.tasks, notifications |-> <<>>, store |-> st]

InitLoaded ==
    \E lost \in LostInputs :
        LET w == _load_all_data(LoseRecord(SavedHierarchy.store, lost))
        IN  /\ projects = w.projects
            /\ phases = w.phases
            /\ processes = w.processes
            /\ tasks = w.tasks
            /\ notifications = w.notifications
            /\ store = w.store
            /\ created = [project |-> 1, phase |-> 1, process |-> 1, task |-> 2]
            /\ service = NewService
            /\ error_handler = NewErrorHandler

NextLoaded ==
    \/ UpdateTaskStatus
    \/ SetProgress
    \/ UpdatePhase
    \/ SetProjectStatus

SpecLoaded == InitLoaded /\ [][NextLoaded]_vars

\* ------------------------------------------------------- one Task alone
InitTask ==
    /\ projects = EmptyDict
    /\ phases = EmptyDict
    /\ processes = EmptyDict
    /\ tasks = Put(EmptyDict, TaskBase + 1, NewTaskWithHistory)
    /\ notifications = <<>>
    /\ store = EmptyStore
    /\ created = [project |-> 0, phase |-> 0, process |-> 0, task |-> 1]
    /\ service = NewService
    /\ error_handler = NewErrorHandler

\* every task status, and a string that is none
SetStatusInputs == TaskStatus \cup { "Bogus" }

SetStatus ==
    \E id \in DOMAIN tasks, new_status \in SetStatusInputs :
        LET r == set_status(tasks[id], new_status)
        IN  /\ Len(r.task.status_history) <= MaxHistory
            /\ tasks' = Put(tasks, id, r.task)
            /\ UNCHANGED <<projects, phases, processes, notifications, store, created, service, error_handler>>

NextTask == SetStatus

SpecTask == InitTask /\ [][NextTask]_vars

\* ---------------------------------- one Process and the tasks it lists
\* what a listed task id resolves to: a task in one of the statuses, or nothing
ListedTaskInputs == TaskStatus \cup { "Missing" }

InitProcess ==
    \E n \in 0..MaxListedTasks :
        \E listed \in [1..n -> ListedTaskInputs] :
            LET process == [NewProcess("alice", None) EXCEPT
                                !.is_progress_manual = FALSE,
                                !.tasks = [i \in 1..n |-> TaskBase + i]]
            IN  /\ projects = EmptyDict
                /\ phases = EmptyDict
                /\ processes = Put(EmptyDict, ProcessBase + 1, process)
                /\ tasks = [id \in { TaskBase + i : i \in { k \in 1..n : listed[k] # "Missing" } }
                               |-> [NewTask(ProcessBase + 1) EXCEPT
                                        !.status = listed[id - TaskBase]]]
                /\ notifications = <<>>
                /\ store = EmptyStore
                /\ created = [project |-> 0, phase |-> 0, process |-> 1, task |-> n]
                /\ service = NewService
                /\ error_handler = NewErrorHandler

UpdateProgressFromTasks ==
    \E id \in DOMAIN processes :
        /\ processes' = Put(processes, id, update_progress_from_tasks(processes[id], tasks))
        /\ UNCHANGED <<projects, phases, tasks, notifications, store, created, service, error_handler>>

NextProcess == UpdateProgressFromTasks

SpecProcess == InitProcess /\ [][NextProcess]_vars

\* ---------------------------------- one Project and the phases it lists
\* what a listed phase id resolves to: a phase with that progress, or nothing
ListedPhaseInputs == ProgressInputs \cup { -1 }
\* the status the project holds before the calculation
HeldStatusInputs == { NOT_STARTED, SUSPENDED }

InitProject ==
    \E n \in 0..MaxListedPhases, status \in HeldStatusInputs :
        \E listed \in [1..n -> ListedPhaseInputs] :
            LET project == [NewProject EXCEPT
                                !.status = status,
                                !.phases = [i \in 1..n |-> PhaseBase + i]]
            IN  /\ projects = Put(EmptyDict, ProjectBase + 1, project)
                /\ phases = [id \in { PhaseBase + i : i \in { k \in 1..n : listed[k] # -1 } }
                                |-> [NewPhase(ProjectBase + 1) EXCEPT
                                         !.progress = listed[id - PhaseBase]]]
                /\ processes = EmptyDict
                /\ tasks = EmptyDict
                /\ notifications = <<>>
                /\ store = EmptyStore
                /\ created = [project |-> 1, phase |-> n, process |-> 0, task |-> 0]
                /\ service = NewService
                /\ error_handler = NewErrorHandler

UpdateStatusFromPhases ==
    \E id \in DOMAIN projects :
        /\ projects' = Put(projects, id, update_status_from_phases(projects[id], phases))
        /\ UNCHANGED <<phases, processes, tasks, notifications, store, created, service, error_handler>>

NextProject == UpdateStatusFromPhases

SpecProject == InitProject /\ [][NextProject]_vars

\* --------------------------------- one Phase and the processes it lists
\* estimated_hours of a listed process: unset, or a value set_estimated_hours
\* accepts
HoursInputs == { NoHours, 0, 10, 30 }

\* what a listed process id resolves to: a process with that progress and
\* those hours, or nothing
ListedProcessInputs ==
    [progress : ProgressInputs, estimated_hours : HoursInputs] \cup { [missing |-> TRUE] }

InitPhase ==
    \E n \in 0..MaxListedProcesses :
        \E listed \in [1..n -> ListedProcessInputs] :
            LET phase == [NewPhase(None) EXCEPT
                              !.processes = [i \in 1..n |-> ProcessBase + i]]
                found == { k \in 1..n : "missing" \notin DOMAIN listed[k] }
            IN  /\ projects = EmptyDict
                /\ phases = Put(EmptyDict, PhaseBase + 1, phase)
                /\ processes = [id \in { ProcessBase + i : i \in found }
                                   |-> [NewProcess("alice", PhaseBase + 1) EXCEPT
                                            !.progress = listed[id - ProcessBase].progress,
                                            !.estimated_hours =
                                                listed[id - ProcessBase].estimated_hours]]
                /\ tasks = EmptyDict
                /\ notifications = <<>>
                /\ store = EmptyStore
                /\ created = [project |-> 0, phase |-> 1, process |-> n, task |-> 0]
                /\ service = NewService
                /\ error_handler = NewErrorHandler

UpdateProgressFromProcesses ==
    \E id \in DOMAIN phases :
        /\ phases' = Put(phases, id, update_progress_from_processes(phases[id], processes))
        /\ UNCHANGED <<projects, processes, tasks, notifications, store, created, service, error_handler>>

NextPhase == UpdateProgressFromProcesses

SpecPhase == InitPhase /\ [][NextPhase]_vars

\* ------------------------------ one NotificationGenerator and one entity
\* end_date of the entity and date.today(), as day numbers
EndDateInputs == { NoDate, 10, 11, 17, 18 }
TodayInputs == { 9, 10, 11, 13 }
\* the settings: the defaults, with either deadline type switched off and
\* with a shorter warning period
SettingsInputs ==
    { [NotificationSettings EXCEPT !.enabled_types = AllTypes \ off,
                                   !.deadline_warning_days = days] :
          off \in SUBSET { DEADLINE_APPROACHING, DEADLINE_OVERDUE },
          days \in { deadline_warning_days, 1 } }

InitGenerator ==
    \E kind \in { "project", "phase", "process" },
       status \in { IN_PROGRESS, COMPLETED },
       progress \in ProgressInputs,
       end_date \in EndDateInputs :
        /\ kind # "project" => status = IN_PROGRESS
        /\ projects = IF kind = "project"
                      THEN Put(EmptyDict, ProjectBase + 1,
                               [status |-> status, progress |-> progress,
                                end_date |-> end_date])
                      ELSE EmptyDict
        /\ phases = IF kind = "phase"
                    THEN Put(EmptyDict, PhaseBase + 1,
                             [progress |-> progress, end_date |-> end_date])
                    ELSE EmptyDict
        /\ processes = IF kind = "process"
                       THEN Put(EmptyDict, ProcessBase + 1,
                                [progress |-> progress, end_date |-> end_date])
                       ELSE EmptyDict
        /\ tasks = EmptyDict
        /\ notifications = <<>>
        /\ store = EmptyStore
        /\ created = [project |-> IF kind = "project" THEN 1 ELSE 0,
                      phase |-> IF kind = "phase" THEN 1 ELSE 0,
                      process |-> IF kind = "process" THEN 1 ELSE 0,
                      task |-> 0]
        /\ service = NewService
        /\ error_handler = NewErrorHandler

\* the list one check returns, kept in `notifications`
Returned(entities) ==
    \E id \in DOMAIN entities, settings \in SettingsInputs, today \in TodayInputs :
        /\ notifications' = check_entity_notifications(settings, today, id, entities[id])
        /\ UNCHANGED <<projects, phases, processes, tasks, store, created, service, error_handler>>

CheckProjectNotifications == Returned(projects)
CheckPhaseNotifications == Returned(phases)
CheckProcessNotifications == Returned(processes)

NextGenerator ==
    \/ CheckProjectNotifications
    \/ CheckPhaseNotifications
    \/ CheckProcessNotifications

SpecGenerator == InitGenerator /\ [][NextGenerator]_vars

\* --------------------------------------------- a store whose writes fail
\* what a failing write raises: DataStoreError from _save_json_file, OSError
\* from the backup copy before it, MemoryError while serialising
WriteFailureInputs == { "DataStoreError", "OSError", "MemoryError" }

InitWriteFailure ==
    LET w == _load_all_data(SavedHierarchy.store)
    IN  /\ projects = w.projects
        /\ phases = w.phases
        /\ processes = w.processes
        /\ tasks = w.tasks
        /\ notifications = w.notifications
        /\ store = w.store
        /\ created = [project |-> 1, phase |-> 1, process |-> 1, task |-> 2]
        /\ service = NewService
        /\ error_handler = NewErrorHandler

UpdateTaskStatusWriteFailing ==
    \E task_id \in TaskIds, new_status \in StatusInputs, exception \in WriteFailureInputs :
        /\ Apply(update_task_status_write_failing(World, task_id, new_status, exception).w)
        /\ UNCHANGED created

SetProgressWriteFailing ==
    \E id \in DOMAIN processes, progress \in ProgressInputs, is_manual \in BOOLEAN,
       exception \in WriteFailureInputs :
        LET w == [World EXCEPT !.processes[id] = set_progress(@, progress, is_manual).process]
        IN  /\ Apply(update_process_write_failing(w, id, exception).w)
            /\ UNCHANGED created

NextWriteFailure ==
    \/ UpdateTaskStatus
    \/ SetProgress
    \/ UpdateTaskStatusWriteFailing
    \/ SetProgressWriteFailing

SpecWriteFailure == InitWriteFailure /\ [][NextWriteFailure]_vars

\* ------------------------- the system and the service with its handlers
\* the callbacks a caller registers
HandlerInputs == { "popup", "mailer" }

\* NotificationService.add_notification_handler, up to MaxHandlers of them
AddNotificationHandler ==
    \E handler \in HandlerInputs :
        /\ Len(service.notification_handlers) < MaxHandlers
        /\ service' = add_notification_handler(service, handler)
        /\ UNCHANGED <<projects, phases, processes, tasks, notifications, store,
                       created, error_handler>>

\* NotificationService.check_and_generate_notifications called synchronously
\* (the "check now" command)
CheckAndGenerateNotifications ==
    LET r == check_and_generate_notifications(service, World)
    IN  /\ service' = r.service
        /\ store' = r.w.store
        /\ UNCHANGED <<projects, phases, processes, tasks, notifications,
                       created, error_handler>>

NextDelivery ==
    \/ CreateProject
    \/ CreatePhase
    \/ CreateProcess
    \/ CreateTask
    \/ UpdateTaskStatus
    \/ AddNotificationHandler
    \/ CheckAndGenerateNotifications

SpecDelivery == Init /\ [][NextDelivery]_vars

\* --------------------------- cascades and checks of the whole system
CheckAllNotifications ==
    /\ Apply(check_all_notifications(World).w)
    /\ UNCHANGED created

NextNotifications ==
    \/ CreateProject
    \/ CreatePhase
    \/ CreateProcess
    \/ CreateTask
    \/ UpdateTaskStatus
    \/ CheckAllNotifications

SpecNotifications == Init /\ [][NextNotifications]_vars

\* ----------------------------------------- wrapped calls that may fail
\* the wrapped functions called, and what one invocation of them does
FunctionInputs == { "update_process", "create_task" }
OutcomeInputs == { Returns, DataError, RetryableFileError, FileIOError, BusinessLogicError }

\* a call of a function wrapped by handle_errors
WrappedCall ==
    \E function \in FunctionInputs, first \in OutcomeInputs, second \in OutcomeInputs :
        /\ Get(error_handler.calls, function) < MaxCalls
        /\ error_handler' = wrapper(error_handler, function, first, second).eh
        /\ UNCHANGED <<projects, phases, processes, tasks, notifications, store,
                       created, service>>

NextRetry == WrappedCall

SpecRetry == Init /\ [][NextRetry]_vars

\* -------------------------- the service, its worker thread and its caller
\* One step of a thread is what it does between two points where the other
\* thread can run and make a difference: add_notification is two steps (the
\* search, the insertion), for nothing in NotificationManager or
\* NotificationService holds a lock. The system holds one project and does
\* not change, so what a check generates is fixed when the check begins.
ManualTypeInputs == { PROGRESS_DELAY, DEADLINE_APPROACHING }

InitBackground ==
    LET w0 == [projects |-> EmptyDict, phases |-> EmptyDict, processes |-> EmptyDict,
               tasks |-> EmptyDict, notifications |-> <<>>, store |-> EmptyStore]
        w == create_project(w0, ProjectBase + 1).w
    IN  /\ projects = w.projects
        /\ phases = EmptyDict
        /\ processes = EmptyDict
        /\ tasks = EmptyDict
        /\ notifications = <<>>
        /\ store = w.store
        /\ created = [project |-> 1, phase |-> 0, process |-> 0, task |-> 0]
        /\ service = NewService
        /\ error_handler = NewErrorHandler

OutsideService == <<projects, phases, processes, tasks, notifications, created,
                    error_handler>>

RECURSIVE GenerateEach(_, _, _)
\* what the generator returns for the entities of one map, in order
GenerateEach(w, kind, ids) ==
    IF ids = <<>> THEN <<>>
    ELSE LET id == Head(ids)
         IN  (CASE kind = "project" -> check_project_notifications(id, w.projects[id])
                [] kind = "phase" -> check_phase_notifications(id, w.phases[id])
                [] OTHER -> check_process_notifications(id, w.processes[id]))
             \o GenerateEach(w, kind, Tail(ids))

\* the notifications one run of check_and_generate_notifications offers to
\* add_notification, in the order it offers them
Generated(w) ==
    GenerateEach(w, "project", InOrder(DOMAIN w.projects))
    \o GenerateEach(w, "phase", InOrder(DOMAIN w.phases))
    \o GenerateEach(w, "process", InOrder(DOMAIN w.processes))

\* ---- the main thread
StartBackgroundService ==
    LET r == start_background_service(service)
    IN  /\ service.caller.pc = "idle"
        /\ r.ret => Len(service.threads) < MaxWorkers
        /\ service' = r.service
        /\ UNCHANGED <<store, OutsideService>>

StopBackgroundService ==
    /\ service.caller.pc = "idle"
    /\ service' = stop_background_service(service).service
    /\ UNCHANGED <<store, OutsideService>>

\* check_thread.join(timeout=5.0) returns because the thread has finished
JoinThreadExited ==
    /\ service.caller.pc = "joining"
    /\ service.threads[service.check_thread].pc = "exited"
    /\ service' = [service EXCEPT !.caller.pc = "idle"]
    /\ UNCHANGED <<store, OutsideService>>

\* ... or because the five seconds are over
JoinTimeout ==
    /\ service.caller.pc = "joining"
    /\ service.threads[service.check_thread].pc # "exited"
    /\ service' = [service EXCEPT !.caller.pc = "idle"]
    /\ UNCHANGED <<store, OutsideService>>

\* create_manual_notification up to its call of add_notification
CreateManualNotification ==
    \E entity_id \in DOMAIN projects, type \in ManualTypeInputs :
        /\ service.caller.pc = "idle"
        /\ service' = [service EXCEPT
               !.caller = [pc |-> "find", manual |-> TRUE,
                           pending |-> << NewNotification(entity_id, type) >>]]
        /\ UNCHANGED <<store, OutsideService>>

\* check_and_generate_notifications called on the main thread, up to its
\* first call of add_notification
CheckNow ==
    /\ service.caller.pc = "idle"
    /\ Generated(World) # <<>>
    /\ service' = [service EXCEPT
           !.caller = [pc |-> "find", manual |-> FALSE, pending |-> Generated(World)]]
    /\ UNCHANGED <<store, OutsideService>>

\* where a thread goes once the head of its pending list is dealt with
AfterHead(thread, done) ==
    [thread EXCEPT !.pending = Tail(@),
                   !.pc = IF Tail(thread.pending) = <<>> THEN done ELSE "find"]

\* add_notification, the search. A rejected notification is dropped by a
\* check; create_manual_notification does not look at the result and goes
\* on to save and deliver.
CallerFind ==
    LET n == Head(service.caller.pending)
    IN  /\ service.caller.pc = "find"
        /\ IF active_existing(service.notifications, n)
           THEN IF service.caller.manual
                THEN /\ service' = [_deliver_notification(service, n)
                                       EXCEPT !.caller = AfterHead(@, "idle")]
                     /\ store' = save_notification(store, n)
                ELSE /\ service' = [service EXCEPT !.caller = AfterHead(@, "idle")]
                     /\ UNCHANGED store
           ELSE /\ service' = [service EXCEPT !.caller.pc = "insert"]
                /\ UNCHANGED store
        /\ UNCHANGED OutsideService

\* add_notification, the insertion, then save_notification and delivery
CallerInsert ==
    LET n == Head(service.caller.pending)
    IN  /\ service.caller.pc = "insert"
        /\ service' = [_deliver_notification(service, n)
                          EXCEPT !.notifications = insert_notification(@, n),
                                 !.caller = AfterHead(@, "idle")]
        /\ store' = save_notification(store, n)
        /\ UNCHANGED OutsideService

\* ---- a worker thread in _background_check_loop
\* `while self.is_running`
WhileRunning(t) ==
    /\ service.threads[t].pc = "while_running"
    /\ service' = [service EXCEPT !.threads[t].pc =
                       IF service.is_running THEN "while_event" ELSE "exited"]
    /\ UNCHANGED <<store, OutsideService>>

\* `and not self.stop_event.is_set()`
WhileEvent(t) ==
    /\ service.threads[t].pc = "while_event"
    /\ service' = [service EXCEPT !.threads[t].pc =
                       IF service.stop_event THEN "exited" ELSE "check"]
    /\ UNCHANGED <<store, OutsideService>>

\* check_and_generate_notifications begins
Check(t) ==
    /\ service.threads[t].pc = "check"
    /\ service' = [service EXCEPT !.threads[t] =
                       [pc |-> IF Generated(World) = <<>> THEN "wait" ELSE "find",
                        pending |-> Generated(World)]]
    /\ UNCHANGED <<store, OutsideService>>

Find(t) ==
    LET n == Head(service.threads[t].pending)
    IN  /\ service.threads[t].pc = "find"
        /\ service' = [service EXCEPT !.threads[t] =
                           IF active_existing(service.notifications, n)
                           THEN AfterHead(@, "wait")
                           ELSE [@ EXCEPT !.pc = "insert"]]
        /\ UNCHANGED <<store, OutsideService>>

Insert(t) ==
    LET n == Head(service.threads[t].pending)
    IN  /\ service.threads[t].pc = "insert"
        /\ service' = [_deliver_notification(service, n)
                          EXCEPT !.notifications = insert_notification(@, n),
                                 !.threads[t] = AfterHead(@, "wait")]
        /\ store' = save_notification(store, n)
        /\ UNCHANGED OutsideService

\* stop_event.wait(timeout) is entered: it returns True at once if the flag
\* is set (`break`), and blocks otherwise
WaitEnter(t) ==
    /\ service.threads[t].pc = "wait"
    /\ service' = [service EXCEPT !.threads[t].pc =
                       IF service.stop_event THEN "exited" ELSE "waiting"]
    /\ UNCHANGED <<store, OutsideService>>

\* the interval has passed: wait returns False, the loop goes round
WaitTimeout(t) ==
    /\ service.threads[t].pc = "waiting"
    /\ service' = [service EXCEPT !.threads[t].pc = "while_running"]
    /\ UNCHANGED <<store, OutsideService>>

\* woken by stop_event.set(): wait returns True, whatever the flag is by
\* now, and the loop is left by `break`
WaitInterrupted(t) ==
    /\ service.threads[t].pc = "woken"
    /\ service' = [service EXCEPT !.threads[t].pc = "exited"]
    /\ UNCHANGED <<store, OutsideService>>

WorkerStep(t) ==
    \/ WhileRunning(t)
    \/ WhileEvent(t)
    \/ Check(t)
    \/ Find(t)
    \/ Insert(t)
    \/ WaitEnter(t)
    \/ WaitTimeout(t)
    \/ WaitInterrupted(t)

NextPolling ==
    \/ StartBackgroundService
    \/ StopBackgroundService
    \/ JoinThreadExited
    \/ JoinTimeout
    \/ \E t \in DOMAIN service.threads : WorkerStep(t)

\* the threads are scheduled fairly: a worker that can take a step takes it
SpecPollingFair ==
    /\ InitBackground
    /\ [][NextPolling]_vars
    /\ \A t \in 1..MaxWorkers :
           WF_vars(t \in DOMAIN service.threads /\ WorkerStep(t))

NextBackground ==
    \/ NextPolling
    \/ CreateManualNotification
    \/ CheckNow
    \/ CallerFind
    \/ CallerInsert

SpecBackground == InitBackground /\ [][NextBackground]_vars

\* ------------------------------------------------------------- properties
\* Operations are judged where they are called: a property of the form
\* "after op(x) returns true, Q" reads, in every reachable state and for
\* every input x, "if op(x) returns true here, Q holds of the world it
\* leaves".

\* the owners of a task, None where one does not resolve
ProcessOf(task_id) ==
    LET id == tasks[task_id].parent_process_id
    IN  IF id \in DOMAIN processes THEN id ELSE None

PhaseOf(task_id) ==
    LET process_id == ProcessOf(task_id)
        id == IF process_id # None THEN processes[process_id].parent_phase_id ELSE None
    IN  IF id \in DOMAIN phases THEN id ELSE None

ProjectOf(task_id) ==
    LET phase_id == PhaseOf(task_id)
        id == IF phase_id # None THEN phases[phase_id].parent_project_id ELSE None
    IN  IF id \in DOMAIN projects THEN id ELSE None

RECURSIVE SumPhaseProgress(_, _)
\* [weight, weighted] over the listed phases that resolve; a phase's weight
\* is the length of its date range in days, 1 for a phase without dates
SumPhaseProgress(ids, phs) ==
    IF ids = <<>> THEN [weight |-> 0, weighted |-> 0]
    ELSE LET rest == SumPhaseProgress(Tail(ids), phs)
         IN  IF Head(ids) \in DOMAIN phs
             THEN [weight |-> rest.weight + 1,
                   weighted |-> rest.weighted + phs[Head(ids)].progress]
             ELSE rest

\* the weighted mean of phase.progress over the project's phases, rounded
\* to one decimal, 0 for a project without phases
WeightedMeanOfPhases(project, phs) ==
    LET s == SumPhaseProgress(project.phases, phs)
    IN  IF s.weight > 0 THEN Round1(s.weighted, s.weight) ELSE 0

\* C1: after update_task_status returns true for a task whose process, phase
\* and project all exist, the project's status being automatic, the
\* project's progress is the weighted mean of the progress of its current
\* phases, rounded to one decimal.
C1_ProjectProgressFresh ==
    \A task_id \in DOMAIN tasks, new_status \in StatusInputs :
        LET r == update_task_status(World, task_id, new_status)
            project_id == ProjectOf(task_id)
        IN  (/\ r.ret = "True"
             /\ project_id # None
             /\ ~projects[project_id].is_status_manual)
            => r.w.projects[project_id].progress
                   = WeightedMeanOfPhases(r.w.projects[project_id], r.w.phases)

\* C2: after update_task_status returns true for a task whose process and
\* phase exist, the phase's progress is calculate_progress_from_processes
\* over the current progress and weights of its processes.
C2_PhaseProgressFresh ==
    \A task_id \in DOMAIN tasks, new_status \in StatusInputs :
        LET r == update_task_status(World, task_id, new_status)
            phase_id == PhaseOf(task_id)
        IN  (r.ret = "True" /\ phase_id # None)
            => r.w.phases[phase_id].progress
                   = calculate_progress_from_processes(r.w.phases[phase_id], r.w.processes)

\* C3: after update_task_status returns true for a task whose process exists
\* and is in automatic mode, the process's progress is
\* calculate_progress_from_tasks over its current task list.
C3_ProcessProgressFresh ==
    \A task_id \in DOMAIN tasks, new_status \in StatusInputs :
        LET r == update_task_status(World, task_id, new_status)
            process_id == ProcessOf(task_id)
        IN  (/\ r.ret = "True"
             /\ process_id # None
             /\ ~processes[process_id].is_progress_manual)
            => r.w.processes[process_id].progress
                   = calculate_progress_from_tasks(r.w.processes[process_id], r.w.tasks)

\* C3 happens: a status change of a task of an automatic process returns
\* true and moves the process's progress to the value computed from its
\* two tasks, one of them completed.
C3_Witness ==
    \E task_id \in DOMAIN tasks, new_status \in StatusInputs :
        LET r == update_task_status(World, task_id, new_status)
            process_id == ProcessOf(task_id)
        IN  /\ r.ret = "True"
            /\ process_id # None
            /\ ~processes[process_id].is_progress_manual
            /\ Len(processes[process_id].tasks) = 2
            /\ r.w.processes[process_id].progress # processes[process_id].progress
            /\ r.w.processes[process_id].progress = 500

\* the frame half of C4: update_task_status on a task of a manual process
\* leaves the process's progress and mode as they were
C4_ManualProcessUntouched ==
    \A task_id \in DOMAIN tasks, new_status \in StatusInputs :
        LET r == update_task_status(World, task_id, new_status)
            process_id == ProcessOf(task_id)
        IN  (process_id # None /\ processes[process_id].is_progress_manual)
            => /\ r.w.processes[process_id].progress = processes[process_id].progress
               /\ r.w.processes[process_id].is_progress_manual

\* C4: update_task_status on a task of a process in manual mode leaves the
\* process's progress and mode unchanged, and when it returns true the
\* phase's progress is still recomputed from its processes.
C4_ManualProcessPhaseRecomputed ==
    /\ C4_ManualProcessUntouched
    /\ \A task_id \in DOMAIN tasks, new_status \in StatusInputs :
        LET r == update_task_status(World, task_id, new_status)
            process_id == ProcessOf(task_id)
            phase_id == PhaseOf(task_id)
        IN  (/\ r.ret = "True"
             /\ phase_id # None
             /\ processes[process_id].is_progress_manual)
            => r.w.phases[phase_id].progress
                   = calculate_progress_from_processes(r.w.phases[phase_id], r.w.processes)

\* C5: update_project recomputes the project's progress from its phases
\* also when the project's status is manual.
C5_ManualStatusProgressRecomputed ==
    \A id \in DOMAIN projects :
        LET r == update_project(World, id)
        IN  projects[id].is_status_manual
            => r.w.projects[id].progress
                   = WeightedMeanOfPhases(r.w.projects[id], r.w.phases)

\* the active notifications of one (entity_id, type) pair
ActiveFor(ns, entity_id, type) ==
    { i \in DOMAIN ns : /\ ns[i].entity_id = entity_id
                        /\ ns[i].type = type
                        /\ is_active(ns[i]) }

\* C6: under add_notification, mark_as_read, acknowledge and dismiss on one
\* NotificationManager, there is at most one active notification per
\* (entity_id, type) pair.
C6_AtMostOneActive ==
    \A i, j \in DOMAIN notifications :
        (/\ notifications[i].entity_id = notifications[j].entity_id
         /\ notifications[i].type = notifications[j].type
         /\ is_active(notifications[i])
         /\ is_active(notifications[j]))
        => i = j

\* C7: whenever no active notification exists for (entity_id, type),
\* add_notification for that pair returns true and inserts the
\* notification.
C7_InactiveNeverBlocks ==
    \A entity_id \in NMEntityInputs, type \in NMTypeInputs :
        LET n == NewNotification(entity_id, type)
            r == add_notification(notifications, n)
        IN  ActiveFor(notifications, entity_id, type) = {}
            => r.ok /\ r.notifications = Append(notifications, n)

\* C7 happens: the manager holds an alert that was dismissed and, after it,
\* a new active one for the same pair.
C7_Witness ==
    /\ Len(notifications) = 2
    /\ notifications[1].entity_id = notifications[2].entity_id
    /\ notifications[1].type = notifications[2].type
    /\ notifications[1].dismissed
    /\ is_active(notifications[2])

\* the entities below a set of owners, by parent id or by child list
PhasesUnder(w, owners) ==
    { id \in DOMAIN w.phases : w.phases[id].parent_project_id \in owners }
        \cup UNION { Range(w.projects[id].phases) : id \in owners \cap DOMAIN w.projects }

ProcessesUnder(w, owners) ==
    { id \in DOMAIN w.processes : w.processes[id].parent_phase_id \in owners }
        \cup UNION { Range(w.phases[id].processes) : id \in owners \cap DOMAIN w.phases }

TasksUnder(w, owners) ==
    { id \in DOMAIN w.tasks : w.tasks[id].parent_process_id \in owners }
        \cup UNION { Range(w.processes[id].tasks) : id \in owners \cap DOMAIN w.processes }

\* what a cascading delete of the entity is to remove
ProcessSubtree(w, id) == {id} \cup TasksUnder(w, {id})

PhaseSubtree(w, id) ==
    LET ps == ProcessesUnder(w, {id})
    IN  {id} \cup ps \cup TasksUnder(w, ps)

ProjectSubtree(w, id) ==
    LET fs == PhasesUnder(w, {id})
        ps == ProcessesUnder(w, fs)
    IN  {id} \cup fs \cup ps \cup TasksUnder(w, ps)

\* none of the ids is a key of a manager map or of a persisted collection
Gone(w, ids) ==
    /\ ids \cap (DOMAIN w.projects \cup DOMAIN w.phases
                    \cup DOMAIN w.processes \cup DOMAIN w.tasks) = {}
    /\ ids \cap (DOMAIN w.store.projects \cup DOMAIN w.store.phases
                    \cup DOMAIN w.store.processes \cup DOMAIN w.store.tasks) = {}

\* no entity of these maps names one of the ids as its parent or as a child
NoReferenceIn(projs, phs, procs, tsks, ids) ==
    /\ \A id \in DOMAIN projs : Range(projs[id].phases) \cap ids = {}
    /\ \A id \in DOMAIN phs : /\ phs[id].parent_project_id \notin ids
                              /\ Range(phs[id].processes) \cap ids = {}
    /\ \A id \in DOMAIN procs : /\ procs[id].parent_phase_id \notin ids
                                /\ Range(procs[id].tasks) \cap ids = {}
    /\ \A id \in DOMAIN tsks : tsks[id].parent_process_id \notin ids

NoReferenceTo(w, ids) ==
    /\ NoReferenceIn(w.projects, w.phases, w.processes, w.tasks, ids)
    /\ NoReferenceIn(w.store.projects, w.store.phases, w.store.processes,
                     w.store.tasks, ids)

\* C8: after delete_project(p) returns true, none of p, its phases, their
\* processes and their tasks is left in a manager map or in a persisted
\* collection, and no surviving entity's parent id or child list names one
\* of them.
C8_DeleteProjectCascades ==
    \A id \in ProjectIds :
        LET r == delete_project(World, id)
            deleted == ProjectSubtree(World, id)
        IN  r.ret = "True" => Gone(r.w, deleted) /\ NoReferenceTo(r.w, deleted)

\* C8 happens: a project holding two phases, two processes and two tasks is
\* deleted while another project stays.
C8_Witness ==
    \E id \in DOMAIN projects :
        LET r == delete_project(World, id)
            deleted == ProjectSubtree(World, id)
        IN  /\ r.ret = "True"
            /\ Cardinality(deleted) = 7
            /\ DOMAIN r.w.projects # {}
            /\ DOMAIN r.w.tasks = {}
            /\ DOMAIN r.w.store.tasks = {}

\* no notification, held or persisted, is about one of the ids
NoNotificationAbout(w, ids) ==
    /\ \A i \in DOMAIN w.notifications : w.notifications[i].entity_id \notin ids
    /\ \A key \in DOMAIN w.store.notifications : key[1] \notin ids

\* C9: after delete_project, delete_phase or delete_process returns true,
\* no notification in the notification manager or in the persisted
\* notifications is about a deleted entity.
C9_NoOrphanedNotification ==
    /\ \A id \in DOMAIN projects :
           LET r == delete_project(World, id)
           IN  r.ret = "True" => NoNotificationAbout(r.w, ProjectSubtree(World, id))
    /\ \A id \in DOMAIN phases :
           LET r == delete_phase(World, id)
           IN  r.ret = "True" => NoNotificationAbout(r.w, PhaseSubtree(World, id))
    /\ \A id \in DOMAIN processes :
           LET r == delete_process(World, id)
           IN  r.ret = "True" => NoNotificationAbout(r.w, ProcessSubtree(World, id))

\* C10: create_phase, create_process and create_task with a parent id that
\* does not resolve raise BusinessLogicError to the caller.
C10_MissingParentRaises ==
    /\ \A project_id \in ProjectIds \ DOMAIN projects :
           create_phase(World, PhaseBase + created.phase + 1, project_id).raised
               = "BusinessLogicError"
    /\ \A phase_id \in PhaseIds \ DOMAIN phases, assignee \in AssigneeInputs :
           create_process(World, ProcessBase + created.process + 1, assignee, phase_id).raised
               = "BusinessLogicError"
    /\ \A process_id \in ProcessIds \ DOMAIN processes :
           create_task(World, TaskBase + created.task + 1, process_id).raised
               = "BusinessLogicError"

\* C11: update_task_status returns false when the task id is unknown or
\* new_status is not one of the four task statuses, and then no task,
\* process, phase, project or notification changes and nothing is persisted.
C11_RejectedStatusChangesNothing ==
    \A task_id \in TaskIds, new_status \in StatusInputs :
        LET r == update_task_status(World, task_id, new_status)
        IN  (task_id \notin DOMAIN tasks \/ new_status \notin TaskStatus)
            => /\ r.ret = "False"
               /\ r.raised = ""
               /\ r.w = World

\* C11 happens: with a task under an automatic process whose phase and
\* project exist, a status outside TaskStatus and an unknown task id are
\* both refused and leave the system as it was.
C11_Witness ==
    \E task_id \in DOMAIN tasks, new_status \in StatusInputs \ TaskStatus,
       unknown \in TaskIds \ DOMAIN tasks :
        /\ ProjectOf(task_id) # None
        /\ ~processes[ProcessOf(task_id)].is_progress_manual
        /\ update_task_status(World, task_id, new_status).ret = "False"
        /\ update_task_status(World, task_id, new_status).w = World
        /\ update_task_status(World, unknown, COMPLETED).ret = "False"
        /\ update_task_status(World, task_id, COMPLETED).w # World

C12_WitnessPhaseMissing ==
    \E task_id \in DOMAIN tasks :
        LET r == update_task_status(World, task_id, COMPLETED)
        IN  /\ ProcessOf(task_id) # None
            /\ PhaseOf(task_id) = None
            /\ ~processes[ProcessOf(task_id)].is_progress_manual
            /\ r.w.store.processes[ProcessOf(task_id)].progress
               # store.processes[ProcessOf(task_id)].progress

\* C13: after any sequence of set_status calls a task's status_history begins
\* with the seed entry "" -> NotStarted and its last entry's new_status is
\* the current status; a set_status call keeps every earlier entry as it
\* was, appends exactly the entry old -> new when it changes the status, and
\* appends nothing when it does not (same status: true; invalid: false).
C13_StatusHistory ==
    \A id \in DOMAIN tasks :
        LET task == tasks[id]
            history == task.status_history
        IN  /\ Len(history) >= 1
            /\ history[1] = [old_status |-> "", new_status |-> NOT_STARTED]
            /\ history[Len(history)].new_status = task.status
            /\ \A new_status \in SetStatusInputs :
                   LET r == set_status(task, new_status)
                       after == r.task.status_history
                   IN  /\ Len(after) >= Len(history)
                       /\ SubSeq(after, 1, Len(history)) = history
                       /\ r.ok = (new_status \in TaskStatus)
                       /\ IF new_status \in TaskStatus /\ new_status # task.status
                          THEN after = Append(history, [old_status |-> task.status,
                                                        new_status |-> new_status])
                          ELSE after = history

\* a task whose status has changed twice and is back at NotStarted: the next
\* call with NotStarted is accepted and records nothing, one with Completed
\* records a fourth entry
C13_Witness ==
    \E id \in DOMAIN tasks :
        /\ Len(tasks[id].status_history) = 3
        /\ tasks[id].status = NOT_STARTED
        /\ set_status(tasks[id], NOT_STARTED).ok
        /\ set_status(tasks[id], NOT_STARTED).task = tasks[id]
        /\ Len(set_status(tasks[id], COMPLETED).task.status_history) = 4
        /\ ~set_status(tasks[id], "Bogus").ok

\* the positions of a process's task list whose task exists and is not
\* CannotHandle, and those of them whose task is Completed
ActionablePositions(process) ==
    { i \in 1..Len(process.tasks) :
          /\ process.tasks[i] \in DOMAIN tasks
          /\ tasks[process.tasks[i]].status # CANNOT_HANDLE }

CompletedPositions(process) ==
    { i \in ActionablePositions(process) : tasks[process.tasks[i]].status = COMPLETED }

\* C14: calculate_progress_from_tasks is 100 x Completed / non-CannotHandle
\* rounded to one decimal (the tenth nearest to the quotient), and 0.0 when
\* the process has no actionable task.
C14_ProgressFromTasks ==
    \A id \in DOMAIN processes :
        LET process == processes[id]
            value == calculate_progress_from_tasks(process, tasks)
            actionable == Cardinality(ActionablePositions(process))
            completed == Cardinality(CompletedPositions(process))
            diff == value * actionable - 1000 * completed
        IN  IF actionable = 0 THEN value = 0
            ELSE /\ 2 * diff <= actionable
                 /\ -2 * diff <= actionable

\* the tasks [Completed, CannotHandle, NotStarted]: the value is 50.0 and the
\* process holds it after update_progress_from_tasks
C14_Witness ==
    \E id \in DOMAIN processes :
        /\ Len(processes[id].tasks) = 3
        /\ \A i \in 1..3 : processes[id].tasks[i] \in DOMAIN tasks
        /\ tasks[processes[id].tasks[1]].status = COMPLETED
        /\ tasks[processes[id].tasks[2]].status = CANNOT_HANDLE
        /\ tasks[processes[id].tasks[3]].status = NOT_STARTED
        /\ calculate_progress_from_tasks(processes[id], tasks) = 500
        /\ processes[id].progress = 500

\* the positions of a project's phase list whose phase exists
ResolvingPositions(project) ==
    { i \in 1..Len(project.phases) : project.phases[i] \in DOMAIN phases }

\* the derived status of the phase at a resolving position
StatusAt(project, i) == get_status(phases[project.phases[i]])

\* C15: calculate_status_from_phases is NotStarted for a project without
\* phases, Completed when every phase is Completed, InProgress when some
\* phase is InProgress, NotStarted when every phase is NotStarted,
\* InProgress for every other mix, and never Suspended or OnHold.
C15_StatusFromPhases ==
    \A id \in DOMAIN projects :
        LET project == projects[id]
            value == calculate_status_from_phases(project, phases)
            at == ResolvingPositions(project)
            all(status) == \A i \in at : StatusAt(project, i) = status
            any(status) == \E i \in at : StatusAt(project, i) = status
        IN  /\ value \notin { SUSPENDED, ON_HOLD }
            /\ value = (IF at = {} THEN NOT_STARTED
                        ELSE IF all(COMPLETED) THEN COMPLETED
                        ELSE IF any(IN_PROGRESS) THEN IN_PROGRESS
                        ELSE IF all(NOT_STARTED) THEN NOT_STARTED
                        ELSE IN_PROGRESS)

\* a mix without an InProgress phase, one Completed and one NotStarted: the
\* automatic project, Suspended or NotStarted before, now holds InProgress
C15_Witness ==
    \E id \in DOMAIN projects :
        /\ Len(projects[id].phases) = 2
        /\ ResolvingPositions(projects[id]) = { 1, 2 }
        /\ StatusAt(projects[id], 1) = COMPLETED
        /\ StatusAt(projects[id], 2) = NOT_STARTED
        /\ calculate_status_from_phases(projects[id], phases) = IN_PROGRESS
        /\ projects[id].status = IN_PROGRESS

RECURSIVE SetHoursSums(_, _)
\* over a phase's process list, with a process's weight its estimated_hours
\* when set (0 included) and 1 when unset: [count, weight, weighted, plain]
\* of the processes that resolve
SetHoursSums(ids, acc) ==
    IF ids = <<>> THEN acc
    ELSE IF Head(ids) \notin DOMAIN processes THEN SetHoursSums(Tail(ids), acc)
    ELSE LET process == processes[Head(ids)]
             weight == IF process.estimated_hours = NoHours THEN 1
                       ELSE process.estimated_hours
         IN  SetHoursSums(Tail(ids),
                 [count |-> acc.count + 1,
                  weight |-> acc.weight + weight,
                  weighted |-> acc.weighted + process.progress * weight,
                  plain |-> acc.plain + process.progress])

\* value is a tenth nearest to n / d
NearestTenth(value, n, d) ==
    /\ 2 * (value * d - n) <= d
    /\ 2 * (n - value * d) <= d

\* C16: calculate_progress_from_processes is sum(progress x weight) /
\* sum(weight) rounded to one decimal, a process's weight being its
\* estimated_hours whenever that is set (0 included) and 1.0 only when it is
\* unset; where every weight is 0 it is the plain mean of the progress values.
C16_ProgressFromProcesses ==
    \A id \in DOMAIN phases :
        LET value == calculate_progress_from_processes(phases[id], processes)
            s == SetHoursSums(phases[id].processes,
                              [count |-> 0, weight |-> 0, weighted |-> 0, plain |-> 0])
        IN  IF s.count = 0 THEN value = 0
            ELSE IF s.weight = 0 THEN NearestTenth(value, s.plain, s.count)
            ELSE NearestTenth(value, s.weighted, s.weight)

\* the scenario of the claim: P1(progress 100, 10 h) and P2(progress 0, 30 h)
\* give 25.0
C16_Scenario ==
    \A id \in DOMAIN phases :
        LET ids == phases[id].processes
        IN  (/\ Len(ids) = 2
             /\ Range(ids) \subseteq DOMAIN processes
             /\ processes[ids[1]].progress = 1000 /\ processes[ids[1]].estimated_hours = 10
             /\ processes[ids[2]].progress = 0 /\ processes[ids[2]].estimated_hours = 30)
            => calculate_progress_from_processes(phases[id], processes) = 250

\* the scenario's phase after update_progress_from_processes
C16_ScenarioWitness ==
    \E id \in DOMAIN phases :
        LET ids == phases[id].processes
        IN  /\ Len(ids) = 2
            /\ Range(ids) \subseteq DOMAIN processes
            /\ processes[ids[1]].progress = 1000 /\ processes[ids[1]].estimated_hours = 10
            /\ processes[ids[2]].progress = 0 /\ processes[ids[2]].estimated_hours = 30
            /\ phases[id].progress = 250

\* the entity a generator state holds, under its id
DatedEntities ==
    [id \in DOMAIN projects \cup DOMAIN phases \cup DOMAIN processes |->
        IF id \in DOMAIN projects THEN projects[id]
        ELSE IF id \in DOMAIN phases THEN phases[id]
        ELSE processes[id]]

OfType(ns, type) == SelectSeq(ns, LAMBDA n : n.type = type)

\* one check never returns both a DeadlineApproaching and a DeadlineOverdue
NeverBothDeadlineTypes(settings) ==
    \A id \in DOMAIN DatedEntities, today \in TodayInputs :
        LET ns == check_entity_notifications(settings, today, id, DatedEntities[id])
        IN  OfType(ns, DEADLINE_APPROACHING) = <<>> \/ OfType(ns, DEADLINE_OVERDUE) = <<>>

\* an incomplete entity whose end_date lies d > 0 days in the past yields
\* exactly one DeadlineOverdue, HIGH, with days_overdue = d
OverdueYieldsOne(settings) ==
    \A id \in DOMAIN DatedEntities, today \in TodayInputs :
        LET entity == DatedEntities[id]
            overdue == OfType(check_entity_notifications(settings, today, id, entity),
                              DEADLINE_OVERDUE)
        IN  (/\ entity.end_date # NoDate
             /\ ~completed_guard(entity)
             /\ today - entity.end_date > 0)
            => /\ Len(overdue) = 1
               /\ overdue[1].priority = HIGH
               /\ overdue[1].metadata.days_overdue = today - entity.end_date
               /\ overdue[1].entity_id = id

\* C17 as stated: for any entity, any current date and whatever the
\* settings, one check never returns both a DeadlineApproaching and a
\* DeadlineOverdue notification, and an incomplete entity whose end_date lies
\* d > 0 days in the past yields exactly one DeadlineOverdue notification,
\* HIGH, with days_overdue = d.
C17_OverdueAsStated ==
    \A settings \in SettingsInputs :
        NeverBothDeadlineTypes(settings) /\ OverdueYieldsOne(settings)

\* C17, amended: the two deadline types never come together under any
\* settings, and the overdue entity yields its one HIGH DeadlineOverdue
\* notification with days_overdue = d whenever the DeadlineOverdue type is
\* enabled in the settings.
C17_OverdueWhenEnabled ==
    \A settings \in SettingsInputs :
        /\ NeverBothDeadlineTypes(settings)
        /\ DEADLINE_OVERDUE \in settings.enabled_types => OverdueYieldsOne(settings)

\* a check has returned a DeadlineOverdue with days_overdue = 3 for a process
\* at 40 %, and no DeadlineApproaching with it
C17_Witness ==
    /\ OfType(notifications, DEADLINE_APPROACHING) = <<>>
    /\ Len(OfType(notifications, DEADLINE_OVERDUE)) = 1
    /\ OfType(notifications, DEADLINE_OVERDUE)[1].priority = HIGH
    /\ OfType(notifications, DEADLINE_OVERDUE)[1].metadata.days_overdue = 3
    /\ \E id \in DOMAIN processes :
           /\ OfType(notifications, DEADLINE_OVERDUE)[1].entity_id = id
           /\ processes[id].progress = 400

\* C18: a check returns a DeadlineApproaching notification exactly when the
\* type is enabled, the entity has an end_date, the entity is not complete
\* (status Completed or progress >= 100) and 0 <= end_date - today <=
\* deadline_warning_days; its priority is HIGH when 0 or 1 day remains and
\* MEDIUM otherwise.
C18_ApproachingExactlyWhen ==
    \A id \in DOMAIN DatedEntities, today \in TodayInputs, settings \in SettingsInputs :
        LET entity == DatedEntities[id]
            days == entity.end_date - today
            approaching == OfType(check_entity_notifications(settings, today, id, entity),
                                  DEADLINE_APPROACHING)
            due == /\ DEADLINE_APPROACHING \in settings.enabled_types
                   /\ entity.end_date # NoDate
                   /\ ~("status" \in DOMAIN entity /\ entity.status = COMPLETED)
                   /\ entity.progress < 1000
                   /\ 0 <= days
                   /\ days <= settings.deadline_warning_days
        IN  IF due
            THEN /\ Len(approaching) = 1
                 /\ approaching[1].entity_id = id
                 /\ approaching[1].priority = (IF days \in { 0, 1 } THEN HIGH ELSE MEDIUM)
            ELSE approaching = <<>>

\* a check has returned a MEDIUM DeadlineApproaching for a project seven
\* days before its end_date; the same project, once its status is
\* Completed, would get none
C18_Witness ==
    \E id \in DOMAIN projects :
        /\ Len(OfType(notifications, DEADLINE_APPROACHING)) = 1
        /\ OfType(notifications, DEADLINE_APPROACHING)[1].priority = MEDIUM
        /\ OfType(notifications, DEADLINE_APPROACHING)[1].metadata.days_until_deadline = 7
        /\ projects[id].status # COMPLETED
        /\ \A today \in TodayInputs :
               OfType(check_entity_notifications(NotificationSettings, today, id,
                          [projects[id] EXCEPT !.status = COMPLETED]),
                      DEADLINE_APPROACHING) = <<>>

\* C19: every process the system holds, in memory or in the store, has a
\* non-empty assignee, and create_process with an empty assignee is rejected
\* (no process comes back).
C19_AssigneeNonEmpty ==
    /\ \A id \in DOMAIN processes : processes[id].assignee # ""
    /\ \A id \in DOMAIN store.processes : store.processes[id].assignee # ""
    /\ \A phase_id \in DOMAIN phases :
           create_process(World, ProcessBase + created.process + 1, "", phase_id).ret
               # "Entity"

\* C20: an error of System category or Critical severity raised inside
\* update_task_status or update_process (a storage write failure) reaches the
\* caller as an exception; the operation does not return None instead.
C20_SystemErrorPropagates ==
    \A exception \in WriteFailureInputs :
        LET error == _wrap_exception(exception)
        IN  (error.category = "SYSTEM" \/ error.severity = "CRITICAL")
            => /\ \A task_id \in DOMAIN tasks, new_status \in TaskStatus :
                      LET r == update_task_status_write_failing(World, task_id,
                                                                new_status, exception)
                      IN  r.raised # ""
               /\ \A id \in DOMAIN processes :
                      LET r == update_process_write_failing(World, id, exception)
                      IN  validate_process(r.w.processes[id]) => r.raised # ""

\* how often handler was called with a notification for (entity_id, type)
DeliveredCount(svc, handler, entity_id, type) ==
    Cardinality({ i \in DOMAIN svc.delivered :
                      svc.delivered[i] = <<handler, entity_id, type>> })

\* the records the store holds for (entity_id, type)
StoredCount(st, entity_id, type) ==
    IF <<entity_id, type>> \in DOMAIN st.notifications
    THEN st.notifications[<<entity_id, type>>] ELSE 0

\* C21: a step that inserts notifications into the system's notification
\* manager (in SpecDelivery only the cascade of update_task_status does)
\* writes each inserted notification to the store and calls every
\* registered handler with it.
C21_CascadeNotificationsDelivered ==
    [][\A i \in (Len(notifications) + 1)..Len(notifications') :
           LET n == notifications'[i]
           IN  /\ StoredCount(store', n.entity_id, n.type)
                      > StoredCount(store, n.entity_id, n.type)
                  \/ StoredCount(store', n.entity_id, n.type) = MaxStored
               /\ \A handler \in Range(service.notification_handlers) :
                      DeliveredCount(service', handler, n.entity_id, n.type)
                          > DeliveredCount(service, handler, n.entity_id, n.type)]_vars

\* the keys the retry counter is kept under
RetryKeys == { <<error.category, function>> :
                   error \in { DataError, RetryableFileError }, function \in FunctionInputs }

\* C22: a wrapped call that fails with a Retry error invokes the function
\* once more while the attempts counted for (category, function) are below
\* max_retry_attempts, and counts the attempt; once they have reached it the
\* call returns the fallback value having invoked the function once only.
\* The count never exceeds max_retry_attempts, so a function is invoked
\* again at most max_retry_attempts times per category of Retry error.
C22_RetryBounded ==
    /\ \A key \in RetryKeys :
           Get(error_handler.recovery_attempts, key) <= max_retry_attempts
    /\ \A function \in FunctionInputs :
           Get(error_handler.invoked, function) - Get(error_handler.calls, function)
               <= 2 * max_retry_attempts
    /\ \A function \in FunctionInputs, first \in { DataError, RetryableFileError },
          second \in OutcomeInputs :
           LET attempts == Get(error_handler.recovery_attempts, <<first.category, function>>)
               r == wrapper(error_handler, function, first, second)
               invocations == Get(r.eh.invoked, function) - Get(error_handler.invoked, function)
           IN  /\ r.raised = ""
               /\ attempts < max_retry_attempts
                      => /\ invocations = 2
                         /\ Get(r.eh.recovery_attempts, <<first.category, function>>)
                                = attempts + 1
                         /\ r.ret = (IF second = Returns THEN "Value" ELSE "None")
               /\ attempts >= max_retry_attempts
                      => /\ invocations = 1
                         /\ r.ret = "None"
                         /\ r.eh.recovery_attempts = error_handler.recovery_attempts

\* reached: a function whose Retry attempts for DataError are used up after
\* three failing calls that were each invoked again, and whose next failing
\* call is not
C22_Witness ==
    \E function \in FunctionInputs :
        /\ Get(error_handler.recovery_attempts, <<"DATA", function>>)
               = max_retry_attempts
        /\ Get(error_handler.invoked, function) - Get(error_handler.calls, function)
               >= max_retry_attempts
        /\ Get(error_handler.calls, function) < MaxCalls
        /\ LET r == wrapper(error_handler, function, DataError, Returns)
           IN  /\ r.ret = "None"
               /\ Get(r.eh.invoked, function) = Get(error_handler.invoked, function) + 1

\* C23: in the service's NotificationManager, fed by the polling thread and
\* by the main thread (create_manual_notification, a check on demand), there
\* is never more than one active notification for one (entity_id, type).
C23_AddNotificationAtomic ==
    \A i, j \in DOMAIN service.notifications :
        (/\ service.notifications[i].entity_id = service.notifications[j].entity_id
         /\ service.notifications[i].type = service.notifications[j].type
         /\ is_active(service.notifications[i])
         /\ is_active(service.notifications[j]))
        => i = j

\* where the t-th worker thread is, "unborn" before it is started
PcOf(t) == IF t \in DOMAIN service.threads THEN service.threads[t].pc ELSE "unborn"

\* C24: when stop_background_service sets the stop event, every worker
\* blocked in its wait between two checks is woken in that same step; a
\* woken worker does nothing but leave its loop (it starts no other check,
\* whatever is called meanwhile); and, the threads being scheduled fairly,
\* it does leave it.
C24_StopInterruptsWait ==
    /\ [][\A t \in DOMAIN service.threads :
              /\ (/\ service.threads[t].pc = "waiting"
                  /\ ~service.stop_event
                  /\ service'.stop_event)
                 => service'.threads[t].pc = "woken"
              /\ service.threads[t].pc = "woken"
                 => service'.threads[t].pc \in { "woken", "exited" }]_vars
    /\ \A t \in 1..MaxWorkers : (PcOf(t) = "woken") ~> (PcOf(t) = "exited")

\* reached: stop has been called on a worker that was waiting, and the
\* caller is in its join; and a service started again while the woken worker
\* of before has not left yet
C24_Witness ==
    \E t \in DOMAIN service.threads :
        /\ service.threads[t].pc = "woken"
        /\ service.check_thread = t
        /\ service.stop_event
        /\ ~service.is_running
        /\ service.caller.pc = "joining"

C24_WitnessRestarted ==
    \E t \in DOMAIN service.threads :
        /\ service.threads[t].pc = "woken"
        /\ service.check_thread # t
        /\ service.is_running
        /\ ~service.stop_event

\* the workers that are in their loop and have not been told to leave it
InLoop == { t \in DOMAIN service.threads :
                service.threads[t].pc \notin { "woken", "exited" } }

\* C29: start_background_service on a running service returns false and
\* changes nothing; at no time are two workers in their polling loop; and a
\* worker other than the one started last (one that a stop was meant for)
\* begins no new check.
C29_SingleWorker ==
    /\ [](/\ service.is_running
             => start_background_service(service) = [service |-> service, ret |-> FALSE]
          /\ Cardinality(InLoop) <= 1)
    /\ [][\A t \in DOMAIN service.threads :
              (t # service'.check_thread /\ service'.threads[t].pc = "check")
                  => service.threads[t].pc = "check"]_vars

\* how often id occurs in a child list
Occurrences(children, id) == Cardinality({ i \in DOMAIN children : children[i] = id })

\* the parents (of one map) whose child list holds id
Listing(parents, field, id) ==
    { p \in DOMAIN parents : id \in Range(parents[p][field]) }

\* parent map / parent's list field / child map / child's parent field agree
LinksAgree(parents, field, children, parent_field) ==
    /\ \A p \in DOMAIN parents : \A i \in DOMAIN parents[p][field] :
           /\ parents[p][field][i] \in DOMAIN children
           /\ children[parents[p][field][i]][parent_field] = p
    /\ \A c \in DOMAIN children :
           /\ children[c][parent_field] \in DOMAIN parents
           /\ Occurrences(parents[children[c][parent_field]][field], c) = 1
           /\ Listing(parents, field, c) = { children[c][parent_field] }

\* C25: in every state reached by create_*, update_task_status and
\* delete_*, each id in a child list is an existing child that names that
\* parent, each child is listed exactly once by the parent it names, and by
\* no other.
C25_LinksAgree ==
    /\ LinksAgree(projects, "phases", phases, "parent_project_id")
    /\ LinksAgree(phases, "processes", processes, "parent_phase_id")
    /\ LinksAgree(processes, "tasks", tasks, "parent_process_id")

\* reached: two processes under different phases, one of them holding the
\* one task that is left after the other task was deleted and had its
\* status changed; and a state after a whole project was deleted next to
\* another that keeps its phase
C25_Witness ==
    /\ Cardinality(DOMAIN phases) = 2
    /\ Cardinality(DOMAIN processes) = 2
    /\ \E a, b \in DOMAIN processes : processes[a].parent_phase_id # processes[b].parent_phase_id
    /\ created.task = 2
    /\ \E t \in DOMAIN tasks :
           /\ DOMAIN tasks = { t }
           /\ tasks[t].status = COMPLETED
           /\ processes[tasks[t].parent_process_id].tasks = << t >>

C25_WitnessProjectDeleted ==
    /\ created.project = 2
    /\ \E p \in DOMAIN projects :
           /\ DOMAIN projects = { p }
           /\ Len(projects[p].phases) = 1
    /\ created.phase = 2
    /\ Cardinality(DOMAIN phases) = 1

\* the roll-up above one process is fresh in w: an automatic process shows
\* the value computed from its tasks, and its phase, where it resolves, the
\* value computed from its processes
RollUpFresh(w, process_id) ==
    LET process == w.processes[process_id]
        phase_id == process.parent_phase_id
    IN  /\ ~process.is_progress_manual
           => process.progress = calculate_progress_from_tasks(process, w.tasks)
        /\ (phase_id # None /\ phase_id \in DOMAIN w.phases)
           => w.phases[phase_id].progress
                  = calculate_progress_from_processes(w.phases[phase_id], w.processes)

\* C26: adding a task to, or deleting a task of, an automatic process whose
\* roll-up is fresh leaves it fresh: the process's progress is
\* calculate_progress_from_tasks over its current task list and its phase's
\* progress is calculate_progress_from_processes, as after a status change.
C26_TaskMutationRefreshesRollUp ==
    \A process_id \in DOMAIN processes :
        (~processes[process_id].is_progress_manual /\ RollUpFresh(World, process_id))
        => /\ RollUpFresh(create_task(World, TaskBase + created.task + 1, process_id).w,
                          process_id)
           /\ \A task_id \in Range(processes[process_id].tasks) :
                  RollUpFresh(delete_task(World, task_id).w, process_id)

\* the entities held by the four managers, and the records of the store
InMemory(w) ==
    [projects |-> w.projects, phases |-> w.phases,
     processes |-> w.processes, tasks |-> w.tasks]

Persisted(w) ==
    [projects |-> w.store.projects, phases |-> w.store.phases,
     processes |-> w.store.processes, tasks |-> w.store.tasks]

Outcome(r) == [w |-> r.w, ret |-> r.ret]

\* what each update operation would leave and return, called here
UpdateOutcomes ==
    { Outcome(update_process(World, id)) : id \in DOMAIN processes }
    \cup { Outcome(update_phase(World, id)) : id \in DOMAIN phases }
    \cup { Outcome(update_project(World, id)) : id \in DOMAIN projects }
    \cup { Outcome(update_task_status(World, task_id, new_status)) :
               task_id \in TaskIds, new_status \in StatusInputs }

\* the same for the create and delete operations
CreateDeleteOutcomes ==
    { Outcome(create_project(World, ProjectBase + created.project + 1)) }
    \cup { Outcome(create_phase(World, PhaseBase + created.phase + 1, project_id)) :
               project_id \in ProjectIds }
    \cup { Outcome(create_process(World, ProcessBase + created.process + 1, assignee, phase_id)) :
               assignee \in AssigneeInputs, phase_id \in PhaseIds }
    \cup { Outcome(create_task(World, TaskBase + created.task + 1, process_id)) :
               process_id \in ProcessIds }
    \cup { Outcome(delete_task(World, id)) : id \in TaskIds }
    \cup { Outcome(delete_process(World, id)) : id \in ProcessIds }
    \cup { Outcome(delete_phase(World, id)) : id \in PhaseIds }
    \cup { Outcome(delete_project(World, id)) : id \in ProjectIds }

\* C27: where the store agrees with memory, it still does after any manager
\* operation (no write failing): every project, phase, process and task has
\* a record equal to its in-memory state and there is no other record; and
\* an update that returns false or None leaves the entities in memory as
\* they were.
C27_StoreAgreesWithMemory ==
    InMemory(World) = Persisted(World)
    => /\ \A r \in UpdateOutcomes \cup CreateDeleteOutcomes :
              InMemory(r.w) = Persisted(r.w)
       /\ \A r \in UpdateOutcomes :
              r.ret \in { "False", "None" } => InMemory(r.w) = InMemory(World)

\* the notifications the manager holds for (entity_id, type), counted as the
\* store's records are
AcceptedCount(ns, entity_id, type) ==
    LET held == Cardinality({ i \in DOMAIN ns :
                                  ns[i].entity_id = entity_id /\ ns[i].type = type })
    IN  IF held < MaxStored THEN held ELSE MaxStored

\* C28: the store holds a notification record exactly for each notification
\* add_notification accepted: per (entity_id, type) as many records as the
\* manager holds notifications, hence (none being read, acknowledged or
\* dismissed here) at most one.
C28_StoredAreTheAccepted ==
    \A entity_id \in DOMAIN projects \cup DOMAIN phases \cup DOMAIN processes,
       type \in AllTypes :
        /\ StoredCount(store, entity_id, type) = AcceptedCount(notifications, entity_id, type)
        /\ StoredCount(store, entity_id, type) <= 1

\* every task the process lists resolves and is Completed in w
AllTasksCompleted(w, process_id) ==
    /\ w.processes[process_id].tasks # <<>>
    /\ \A id \in Range(w.processes[process_id].tasks) :
           id \in DOMAIN w.tasks /\ w.tasks[id].status = COMPLETED

\* C30: in a hierarchy built with the create operations alone, an
\* update_task_status that returns true and leaves every task of the owning
\* process Completed leaves that process at progress 100.0, its derived
\* status Completed.
C30_AllTasksCompletedCompletesProcess ==
    \A task_id \in DOMAIN tasks :
        LET r == update_task_status(World, task_id, COMPLETED)
            process_id == ProcessOf(task_id)
        IN  (/\ r.ret = "True"
             /\ process_id # None
             /\ AllTasksCompleted(r.w, process_id))
            => /\ r.w.processes[process_id].progress = 1000
               /\ get_status(r.w.processes[process_id]) = COMPLETED

====
